---- MODULE Spec2Model ----
(***************************************************************************)
(* Query orchestration engine of the CRM agent:                            *)
(*   MCP/app/agents/tools/crm_tools.py  (credential cache, result cache,   *)
(*                                       record fetcher, local filters)    *)
(*   MCP/app/agents/mcp_agent.py        (filter resolver, fan-out          *)
(*                                       executor, workflows, dispatcher)  *)
(* Python values are modelled as follows.                                  *)
(*   str            a sequence of one-character strings                    *)
(*   scalar value   a tagged record [t, s, n]: "str", "num" or "none"      *)
(*   dict           a sequence of [key, ...] entries (insertion order) or  *)
(*                  a function over its keys                               *)
(*   None           the model value None / NoValue                         *)
(***************************************************************************)
EXTENDS Integers, Sequences, FiniteSets, TLC

VARIABLES
    now,            \* time.time(), in seconds
    ticks,          \* number of clock advances taken (bounds the run)
    data_cache,     \* crm_tools._data_cache: handle -> [data, expires_at]
    issued,         \* history: handle -> the last _cache_data call that
                    \* returned it, [t, data, live]; live is FALSE once
                    \* clear_crm_cache has dropped that entry
    lookup,         \* the _get_cached_data call that has just returned:
                    \* [h, t, res] (h = None when no call has just returned)
    ctx_token,      \* crm_tools.user_token_ctx: the request's header token
    session,        \* crm_tools._user_session_cache
    mcp_log,        \* mcp_logger.steps: the titles of the steps logged
    ui_base,        \* whether CRM_UI_BASE_URL is configured
    upstream_depth, \* how many pages of data the upstream holds (-1: it
                    \* returns data for every page asked)
    upstream_extra, \* how many rows more than asked the upstream puts in a
                    \* page it fills
    args,           \* the arguments the caller passes to query_crm_data
    q,              \* the query_crm_data call in progress (its locals)
    auth_ret,       \* what the resolve_auth_token call after that one returned
    walk,           \* the page walk of a query_crm_data call (row counts)
    task,           \* the task dict (task_config / params) being processed
    task0,          \* history: the task as the classifier returned it
    rs,             \* _resolve_smart_filters: its locals
    messages,       \* message_handler.callback_messages
    wf,             \* the workflow executing the task: its locals, the
                    \* query_crm_data calls it has made, its result
    fan,            \* the sub-fetches of _fetch_data_handling_multi_values
    run,            \* run_async: the request, its tasks and their
                    \* _process_task coroutines, the response, and the
                    \* task_list of the response before
    ident,          \* _generate_task_id applied to two filter dicts, and to
                    \* the first one again after a JSON round trip
    calc            \* a tool function applied to a record list: its
                    \* argument, its locals, what it returns

cacheVars == <<data_cache, issued, lookup>>
clockVars == <<now, ticks>>
authVars == <<ctx_token, session>>
envVars == <<ui_base, upstream_depth, upstream_extra>>
fetchVars == <<mcp_log, args, q, auth_ret>>
resolveVars == <<task, task0, rs, messages>>
taskVars == <<wf, fan>>
fetchLocals == <<args, q, auth_ret, walk>>
\* the state of the agent (mcp_agent.py) and of the tools below it
agentVars == <<resolveVars, taskVars, run, ident, calc>>
toolVars == <<authVars, envVars, fetchVars, walk>>
toolRest == <<authVars, envVars, fetchLocals>>

vars == <<clockVars, cacheVars, toolVars, agentVars>>

----------------------------------------------------------------------------
(* Bounds of the model                                                     *)

MaxTicks == 3

MaxDepth == 2

MaxRequests == 2

MaxPage == 2

(* Program constants                                                       *)

CACHE_TTL == 3600
PAGE_SIZE == 20
PAGE_CAP == 500
ITERATION_SAFETY_LIMIT == 20000

None == "None"

----------------------------------------------------------------------------
(* Python strings and scalars                                              *)

S1(a) == <<a>>
S2(a, b) == <<a, b>>

LowerChar(c) ==
    CASE c = "A" -> "a"
      [] c = "B" -> "b"
      [] c = "N" -> "n"
      [] OTHER -> c

\* str.lower()
Lower(s) == [i \in 1..Len(s) |-> LowerChar(s[i])]

\* needle in hay  (Python substring test on str)
Contains(needle, hay) ==
    \E i \in 0..(Len(hay) - Len(needle)) :
        SubSeq(hay, i + 1, i + Len(needle)) = needle

DigitChar(d) ==
    CASE d = 0 -> "0" [] d = 1 -> "1" [] d = 2 -> "2" [] d = 3 -> "3"
      [] d = 4 -> "4" [] d = 5 -> "5" [] d = 6 -> "6" [] d = 7 -> "7"
      [] d = 8 -> "8" [] OTHER -> "9"

RECURSIVE Digits(_)
\* str(n) for a non-negative int
Digits(n) == IF n < 10 THEN <<DigitChar(n)>>
             ELSE Digits(n \div 10) \o <<DigitChar(n % 10)>>

StrV(s) == [t |-> "str", s |-> s, n |-> 0]
NumV(n) == [t |-> "num", s |-> <<>>, n |-> n]
NoneV == [t |-> "none", s |-> <<>>, n |-> 0]

\* str(v)
PyStr(v) ==
    CASE v.t = "str" -> v.s
      [] v.t = "num" -> Digits(v.n)
      [] OTHER -> <<"N", "o", "n", "e">>

----------------------------------------------------------------------------
(* Ephemeral result cache                                                  *)

Handles == {"crm_data_a", "crm_data_b"}

\* the record lists the cache specification stores
CacheData == {<<>>, <<1>>, <<1, 2>>}

\* uuid.uuid4().hex[:8]: 32 random bits, any handle may be drawn, also one
\* that is already a key of the cache
NewHandleChoices == Handles

\* _cache_data(data) with the drawn handle h: the cache afterwards
CacheDataStore(cache, h, data, t) ==
    [k \in (DOMAIN cache) \cup {h} |->
        IF k = h THEN [data |-> data, expires_at |-> t + CACHE_TTL]
        ELSE cache[k]]

\* what _get_cached_data returns: the list stored, or None
Found(data) == [found |-> TRUE, data |-> data]
NotFound == [found |-> FALSE, data |-> <<>>]

\* a lookup that treats the expiry instant itself as still valid
GetCachedData_InclusiveExpiry(cache, h, t) ==
    IF h \in DOMAIN cache /\ t <= cache[h].expires_at
    THEN Found(cache[h].data)
    ELSE NotFound

\* _get_cached_data(data_id) at time t
GetCachedData(cache, h, t) ==
    IF h \in DOMAIN cache /\ t < cache[h].expires_at
    THEN Found(cache[h].data)
    ELSE NotFound

EmptyCache == [k \in {} |-> None]

----------------------------------------------------------------------------
(* Records, filter values and filter-maps                                  *)

\* rec.get("id") is None
NoId == 0

\* records the upstream can return (raw tableData rows)
R1 == [id |-> 1, name |-> StrV(<<"A", "[">>), status |-> StrV(<<"a", "B">>),
       amount |-> NumV(5)]
R2 == [id |-> 2, status |-> StrV(<<"b">>), amount |-> NumV(15)]
R3 == [id |-> 3, amount |-> NumV(50)]

\* a page of n rows with ids 1..n
FullPage(n) ==
    [i \in 1..n |-> [id |-> i, status |-> StrV(<<"b">>), amount |-> NumV(i)]]

\* filter values: a scalar (StrV, NumV), a list, or a dict
ListC(items) == [t |-> "list", items |-> items]
\* {"operator": op, "value": v}
OpC(op, v) == [t |-> "dict", keys |-> {"operator", "value"}, operator |-> op,
               value |-> v, start |-> 0, end |-> 0]
\* {"operator": "between", "start": a, "end": b}
BetweenC(a, b) == [t |-> "dict", keys |-> {"operator", "start", "end"},
                   operator |-> "between", value |-> NoneV, start |-> a,
                   end |-> b]

\* isinstance(v, dict) and isinstance(v.get("value"), list)
IsDictWithListValue(c) == c.t = "dict" /\ "value" \in c.keys /\ c.value.t = "list"

F(key, crit) == [key |-> key, crit |-> crit]

\* a JSON object: its entries in insertion order
JObj(entries) == [t |-> "obj", entries |-> entries]

\* the filter-maps of the model (a dict in insertion order)
FilterMaps == {
    <<>>,
    <<F("status", StrV(<<"B">>))>>,
    <<F("status", ListC(<<StrV(<<"b">>), StrV(<<"x">>)>>))>>,
    <<F("amount", OpC(">", NumV(10)))>>,
    <<F("amount", OpC("eq", NumV(5)))>>,
    <<F("amount", NumV(5))>>,
    <<F("amount", BetweenC(10, 20))>>,
    <<F("status", StrV(<<"b">>)), F("amount", OpC("not_equal", NumV(15)))>> }

----------------------------------------------------------------------------
(* Local post-filter                                                       *)

\* str(val).lower() not in [str(v).lower() for v in items]
InLowered(val, items) ==
    \E i \in 1..Len(items) : Lower(PyStr(items[i])) = Lower(PyStr(val))

\* one (key, criteria) pair of _apply_local_filters against one record:
\* TRUE when the loop body leaves match = True
LocalMatch(rec, key, crit) ==
    IF key \notin DOMAIN rec THEN TRUE
    ELSE LET val == rec[key] IN
         CASE crit.t = "list" -> InLowered(val, crit.items)
           [] IsDictWithListValue(crit) -> InLowered(val, crit.value.items)
           [] crit.t = "str" -> Contains(Lower(PyStr(crit)), Lower(PyStr(val)))
           [] crit.t = "num" -> Lower(PyStr(val)) = Lower(PyStr(crit))
           [] crit.t = "dict" /\ "value" \in crit.keys ->
                LET op == IF "operator" \in crit.keys THEN crit.operator ELSE "eq"
                IN  CASE op \in {"eq", "=", "equals"} ->
                            Contains(Lower(PyStr(crit.value)), Lower(PyStr(val)))
                      [] op \in {"not_equal", "neq"} ->
                            Lower(PyStr(crit.value)) # Lower(PyStr(val))
                      [] OTHER -> TRUE
           [] OTHER -> TRUE

RecMatches(rec, filters) ==
    \A i \in 1..Len(filters) : LocalMatch(rec, filters[i].key, filters[i].crit)

\* _apply_local_filters(records, filters)
ApplyLocalFilters(records, filters) ==
    IF filters = <<>> \/ records = <<>> THEN records
    ELSE SelectSeq(records, LAMBDA r : RecMatches(r, filters))

----------------------------------------------------------------------------
(* Enrichment of the returned rows                                         *)

\* original_name.replace("[", "(").replace("]", ")")
LinkText(s) ==
    [i \in 1..Len(s) |-> CASE s[i] = "[" -> "(" [] s[i] = "]" -> ")" [] OTHER -> s[i]]

\* "[text](base/app/detailview/<module>/<id>)"
LinkV(text, id) == [t |-> "link", s |-> LinkText(text), n |-> id]

\* rec = {"id": r.get("id"), "module": module_key, **r} and the link rewrite
ProcessRecord(r, base) ==
    LET id == IF "id" \in DOMAIN r THEN r.id ELSE NoId
        rec == [k \in (DOMAIN r) \cup {"id", "module"} |->
                   CASE k = "id" /\ k \notin DOMAIN r -> NoId
                     [] k = "module" /\ k \notin DOMAIN r -> "Module"
                     [] OTHER -> r[k]]
    IN  IF base /\ id # NoId /\ "name" \in DOMAIN rec /\ rec.name.t = "str"
           /\ rec.name.s # <<>>
        THEN [rec EXCEPT !.name = LinkV(PyStr(rec.name), id)]
        ELSE rec

ProcessRecords(records, base) ==
    [i \in 1..Len(records) |-> ProcessRecord(records[i], base)]

----------------------------------------------------------------------------
(* Credentials                                                             *)

\* a token: its length, and the length of token.strip()
NoToken == [id |-> "none", len |-> 0, stripped |-> 0]
ShortToken == [id |-> "short", len |-> 10, stripped |-> 10]
PaddedToken == [id |-> "padded", len |-> 12, stripped |-> 10]
HeaderToken == [id |-> "header", len |-> 32, stripped |-> 32]
SessionToken == [id |-> "session", len |-> 32, stripped |-> 32]

\* a resolver that takes the session token at its expiry instant
ResolveAuthToken_InclusiveExpiry(ctx, sess, t) ==
    IF ctx # NoToken /\ ctx.stripped > 10
    THEN [ok |-> TRUE, token |-> ctx, session |-> sess]
    ELSE IF sess.access_token # NoToken /\ t <= sess.expires_at
         THEN [ok |-> TRUE, token |-> sess.access_token, session |-> sess]
         ELSE [ok |-> FALSE, token |-> NoToken,
               session |-> [sess EXCEPT !.access_token = NoToken]]

\* resolve_auth_token(): [ok, token, session afterwards]
ResolveAuthToken(ctx, sess, t) ==
    IF ctx # NoToken /\ ctx.stripped > 10
    THEN [ok |-> TRUE, token |-> ctx, session |-> sess]
    ELSE IF sess.access_token # NoToken
         THEN IF t < sess.expires_at
              THEN [ok |-> TRUE, token |-> sess.access_token, session |-> sess]
              ELSE [ok |-> FALSE, token |-> NoToken,
                    session |-> [sess EXCEPT !.access_token = NoToken]]
         ELSE [ok |-> FALSE, token |-> NoToken, session |-> sess]

----------------------------------------------------------------------------
(* The clock and the cache operations                                      *)

InitClock ==
    /\ now = 0
    /\ ticks = 0

NoLookup == [h |-> None, t |-> 0, res |-> NotFound]

InitCache ==
    /\ data_cache = EmptyCache
    /\ issued = EmptyCache
    /\ lookup = NoLookup

\* time passes between two calls
Tick ==
    /\ ticks < MaxTicks
    /\ \E d \in {1, CACHE_TTL - 1} : now' = now + d
    /\ ticks' = ticks + 1
    /\ lookup' = NoLookup
    /\ UNCHANGED <<data_cache, issued, authVars, envVars, fetchVars, walk, agentVars>>

\* a caller stores a record list: _cache_data(data)
CacheInsert ==
    /\ \E h \in NewHandleChoices, d \in CacheData :
        /\ data_cache' = CacheDataStore(data_cache, h, d, now)
        /\ issued' = [k \in (DOMAIN issued) \cup {h} |->
                         IF k = h THEN [t |-> now, data |-> d, live |-> TRUE]
                         ELSE issued[k]]
    /\ lookup' = NoLookup
    /\ UNCHANGED <<clockVars, authVars, envVars, fetchVars, walk, agentVars>>

\* a caller looks a handle up: _get_cached_data(h)
CacheLookup ==
    /\ \E h \in Handles :
        lookup' = [h |-> h, t |-> now, res |-> GetCachedData(data_cache, h, now)]
    /\ UNCHANGED <<data_cache, issued, clockVars, authVars, envVars, fetchVars, walk, agentVars>>

\* clear_crm_cache()
ClearCrmCache ==
    /\ data_cache' = EmptyCache
    /\ issued' = [k \in DOMAIN issued |-> [issued[k] EXCEPT !.live = FALSE]]
    /\ lookup' = NoLookup
    /\ UNCHANGED <<clockVars, authVars, envVars, fetchVars, walk, agentVars>>

----------------------------------------------------------------------------
(* The task in hand and the resolver's locals                              *)

NewTask(type, filters, limit) ==
    [type |-> type, module |-> "Module", filters |-> filters, limit |-> limit,
     page |-> 0, fdv |-> <<>>, merge_fallback |-> FALSE]

IdleRs ==
    [pc |-> "idle", keys |-> <<>>, ki |-> 0, fi |-> 0, name_query |-> NoneV,
     target_id |-> <<>>, lookups |-> <<>>, outcomes |-> <<>>, kstart |-> 0]

\* _cache_data(data) returning handle h
Caches(h, data) ==
    /\ data_cache' = CacheDataStore(data_cache, h, data, now)
    /\ issued' = [k \in (DOMAIN issued) \cup {h} |->
                     IF k = h THEN [t |-> now, data |-> data, live |-> TRUE]
                     ELSE issued[k]]

\* the steps one query_crm_data call logs, when it returns and when it raises
QueryLog(ok) ==
    <<"Query CRM Data", "API Request Page",
      IF ok THEN "API Success" ELSE "API Error">>

\* no result yet
NoResult == [count |-> 0, records |-> <<>>, data_id |-> None]

\* the dict a workflow returns: the fields it carries and their values
Envelope(keys, type, count, records) ==
    [keys |-> keys, type |-> type, count |-> count, total_count |-> 0,
     records |-> records, agg |-> <<>>, sub_results |-> <<>>]

NoEnvelope == Envelope({}, None, 0, <<>>)

IdleWf ==
    [pc |-> "idle", calls |-> <<>>, fetched |-> NoResult, aggs |-> <<>>,
     si |-> 0, subs |-> <<>>, env |-> NoEnvelope, verify |-> "none",
     counted |-> 0, kept |-> <<>>]

\* order: history, the sub-fetches in the order they returned
IdleFan ==
    [key |-> None, values |-> <<>>, pending |-> {}, res |-> <<>>,
     order |-> <<>>]

\* the target_task_id of a request that carries none
NoTaskId == [module |-> None, filters |-> <<>>]

NoOut == [normal |-> TRUE, parts |-> <<>>, task_list |-> <<>>]

IdleIdent ==
    [pc |-> "idle", module |-> None, a |-> JObj(<<>>), b |-> JObj(<<>>),
     id_a |-> NoTaskId, id_b |-> NoTaskId, id_again |-> NoTaskId]

\* no tool function called
IdleCalc == [pc |-> "idle"]

IdleRun ==
    [pc |-> "idle", n |-> 0, page |-> 1, target |-> NoTaskId, tasks |-> <<>>,
     pt |-> <<>>, order |-> <<>>, out |-> NoOut, prior |-> <<>>]

\* no task in hand
InitAgentIdle ==
    /\ task = NewTask("list", <<>>, 0)
    /\ task0 = task
    /\ rs = IdleRs
    /\ messages = <<>>
    /\ wf = IdleWf
    /\ fan = IdleFan
    /\ run = IdleRun
    /\ ident = IdleIdent
    /\ calc = IdleCalc

----------------------------------------------------------------------------
(* Record fetcher: query_crm_data                                          *)

\* max_records = 0 stands for None
PageSize(max_records) ==
    IF max_records > 0 /\ max_records < PAGE_SIZE THEN max_records ELSE PAGE_SIZE

IterationLimit(max_records, iterate) ==
    IF max_records # 0 /\ iterate THEN max_records ELSE ITERATION_SAFETY_LIMIT

FirstPage(iterate, page_number) == IF iterate THEN 1 ELSE page_number

\* a loop that leaves one page before the cap (current_page >= 500)
LoopStep_EarlyCap(n_all, n_page, iterate, limit, page_size, current_page) ==
    IF n_page = 0
    THEN [len |-> n_all, page |-> current_page, stop |-> TRUE]
    ELSE IF ~iterate
    THEN [len |-> n_all + n_page, page |-> current_page, stop |-> TRUE]
    ELSE IF n_all + n_page >= limit
    THEN [len |-> limit, page |-> current_page, stop |-> TRUE]
    ELSE IF n_page < page_size
    THEN [len |-> n_all + n_page, page |-> current_page, stop |-> TRUE]
    ELSE [len |-> n_all + n_page, page |-> current_page + 1,
          stop |-> current_page + 1 >= PAGE_CAP]

\* a loop that leaves at the limit with every row it holds
LoopStep_NoTruncate(n_all, n_page, iterate, limit, page_size, current_page) ==
    IF n_page = 0
    THEN [len |-> n_all, page |-> current_page, stop |-> TRUE]
    ELSE IF ~iterate
    THEN [len |-> n_all + n_page, page |-> current_page, stop |-> TRUE]
    ELSE IF n_all + n_page >= limit
    THEN [len |-> n_all + n_page, page |-> current_page, stop |-> TRUE]
    ELSE IF n_page < page_size
    THEN [len |-> n_all + n_page, page |-> current_page, stop |-> TRUE]
    ELSE [len |-> n_all + n_page, page |-> current_page + 1,
          stop |-> current_page + 1 > PAGE_CAP]

\* the body of the while loop once a page of n_page rows has arrived with
\* status 200, n_all rows being held already: the number of rows held
\* afterwards, the next page number and whether the loop is left
LoopStep(n_all, n_page, iterate, limit, page_size, current_page) ==
    IF n_page = 0
    THEN [len |-> n_all, page |-> current_page, stop |-> TRUE]
    ELSE IF ~iterate
    THEN [len |-> n_all + n_page, page |-> current_page, stop |-> TRUE]
    ELSE IF n_all + n_page >= limit
    THEN [len |-> limit, page |-> current_page, stop |-> TRUE]
    ELSE IF n_page < page_size
    THEN [len |-> n_all + n_page, page |-> current_page, stop |-> TRUE]
    ELSE [len |-> n_all + n_page, page |-> current_page + 1,
          stop |-> current_page + 1 > PAGE_CAP]

\* the same with the rows themselves: all_records afterwards
AfterPage(all, page_data, iterate, limit, page_size, current_page) ==
    LET st == LoopStep(Len(all), Len(page_data), iterate, limit, page_size,
                       current_page)
    IN  [all |-> SubSeq(all \o page_data, 1, st.len), page |-> st.page,
         stop |-> st.stop]

\* the rows returned: the local post-filter, then the enrichment
ReturnedRecords(all, filters, base) ==
    ProcessRecords(IF filters # <<>> THEN ApplyLocalFilters(all, filters) ELSE all,
                   base)

\* what the upstream can answer to one page request
Statuses == {"ok", "unauthorized", "error_status", "transport_error"}

PageChoices(page_size) ==
    {<<>>, <<R1>>, <<R2, R3>>, FullPage(page_size + upstream_extra)}

IdleWalk ==
    [pc |-> "idle", page_size |-> 0, current_page |-> 0, limit |-> 0,
     rows |-> 0, reqs |-> <<>>, last |-> 0]

IdleQ ==
    [pc |-> "idle", token |-> NoToken, page_size |-> 0, current_page |-> 0,
     limit |-> 0, all_records |-> <<>>, reqs |-> <<>>, err |-> "",
     rejected |-> FALSE, result |-> NoResult, cached |-> FALSE]

\* entry of query_crm_data up to the while loop: the first log step and
\* resolve_auth_token()
QCall ==
    /\ q.pc = "idle"
    /\ LET r == ResolveAuthToken(ctx_token, session, now) IN
       /\ session' = r.session
       /\ mcp_log' = Append(mcp_log, "Query CRM Data")
       /\ q' = IF r.ok
               THEN [IdleQ EXCEPT
                       !.pc = "loop",
                       !.token = r.token,
                       !.page_size = PageSize(args.max_records),
                       !.current_page = FirstPage(args.iterate, args.page_number),
                       !.limit = IterationLimit(args.max_records, args.iterate)]
               ELSE [IdleQ EXCEPT !.pc = "raised", !.err = "NotLoggedIn"]
    /\ UNCHANGED <<clockVars, cacheVars, ctx_token, envVars, args, auth_ret, walk, agentVars>>

\* a fetcher that answers a failed page request with the rows it holds
QPageFails_ReturnsPartial(status) ==
    /\ mcp_log' = Append(mcp_log, "API Error")
    /\ q' = [q EXCEPT
               !.pc = "raised",
               !.reqs = Append(q.reqs, q.current_page),
               !.err = "Error",
               !.result = [count |-> Len(q.all_records),
                           records |-> q.all_records, data_id |-> None]]
    /\ UNCHANGED <<clockVars, cacheVars, authVars, envVars, args, auth_ret, walk, agentVars>>

\* one iteration of the while loop that ends in an exception: a transport
\* error, an error status, or a 401 (whose handler reads the undefined global
\* _system_token_cache, a NameError); the except clause logs and re-raises
QPageFails(status) ==
    /\ mcp_log' = (IF q.current_page = 1 \/ ~args.iterate
                   THEN Append(mcp_log, "API Request Page") ELSE mcp_log)
                  \o <<"API Error">>
    /\ q' = [q EXCEPT
               !.pc = "raised",
               !.reqs = Append(q.reqs, q.current_page),
               !.rejected = (status = "unauthorized"),
               !.err = CASE status = "unauthorized" -> "NameError"
                         [] status = "error_status" -> "HTTPError"
                         [] OTHER -> "ConnectionError"]
    /\ UNCHANGED <<clockVars, cacheVars, authVars, envVars, args, auth_ret, walk, agentVars>>

\* one iteration of the while loop with a page received, and, when the loop
\* is left, the rest of the function: post-filter, log step, enrichment,
\* _cache_data for a non-empty result, return
QPageArrives(page_data) ==
    LET a == AfterPage(q.all_records, page_data, args.iterate, q.limit,
                       q.page_size, q.current_page)
        logged == IF q.current_page = 1 \/ ~args.iterate
                  THEN Append(mcp_log, "API Request Page") ELSE mcp_log
        recs == ReturnedRecords(a.all, args.filters, ui_base)
    IN  IF ~a.stop
        THEN /\ q' = [q EXCEPT !.all_records = a.all, !.current_page = a.page,
                               !.reqs = Append(q.reqs, q.current_page)]
             /\ mcp_log' = logged
             /\ UNCHANGED <<clockVars, cacheVars, authVars, envVars, args,
                            auth_ret, walk, agentVars>>
        ELSE /\ mcp_log' = Append(logged, "API Success")
             /\ \E h \in NewHandleChoices :
                  /\ q' = [q EXCEPT
                             !.pc = "done",
                             !.all_records = a.all,
                             !.current_page = a.page,
                             !.reqs = Append(q.reqs, q.current_page),
                             !.cached = Len(recs) > 0,
                             !.result = [count |-> Len(recs), records |-> recs,
                                         data_id |-> IF Len(recs) > 0 THEN h
                                                     ELSE None]]
                  /\ IF Len(recs) > 0
                     THEN /\ data_cache' = CacheDataStore(data_cache, h, recs, now)
                          /\ issued' = [k \in (DOMAIN issued) \cup {h} |->
                                IF k = h
                                THEN [t |-> now, data |-> recs, live |-> TRUE]
                                ELSE issued[k]]
                     ELSE UNCHANGED <<data_cache, issued>>
             /\ UNCHANGED <<clockVars, lookup, authVars, envVars, args, auth_ret, walk, agentVars>>

\* one page request and the upstream's answer to it
QPage ==
    /\ q.pc = "loop"
    /\ \E status \in Statuses :
         IF status = "ok"
         THEN \E page_data \in PageChoices(q.page_size) :
                /\ (page_data # <<>> =>
                      upstream_depth = -1 \/ Len(q.reqs) < upstream_depth)
                /\ QPageArrives(page_data)
         ELSE QPageFails(status)

NoAuthRet == [called |-> FALSE, ok |-> FALSE, token |-> NoToken]

\* the resolve_auth_token() of the call that follows a finished one
QNextResolve ==
    /\ q.pc \in {"done", "raised"}
    /\ ~auth_ret.called
    /\ LET r == ResolveAuthToken(ctx_token, session, now) IN
       /\ session' = r.session
       /\ auth_ret' = [called |-> TRUE, ok |-> r.ok, token |-> r.token]
    /\ UNCHANGED <<clockVars, cacheVars, ctx_token, envVars, mcp_log, args, q,
                   walk, agentVars>>

MaxRecordsChoices == {0, 2, 25}

ArgChoices ==
    [filters : FilterMaps, max_records : MaxRecordsChoices, iterate : BOOLEAN,
     page_number : {1, 2}]

InitAuth ==
    /\ ctx_token \in {NoToken, ShortToken, PaddedToken, HeaderToken}
    /\ session \in {[access_token |-> NoToken, expires_at |-> 0],
                    [access_token |-> SessionToken, expires_at |-> now],
                    [access_token |-> SessionToken, expires_at |-> now + 1500]}

InitFetchLocals ==
    /\ mcp_log = <<>>
    /\ q = IdleQ
    /\ auth_ret = NoAuthRet

InitFetch ==
    /\ InitClock
    /\ InitCache
    /\ InitAuth
    /\ ui_base \in BOOLEAN
    /\ upstream_depth = MaxDepth
    /\ upstream_extra \in {0, 1}
    /\ args \in ArgChoices
    /\ InitFetchLocals
    /\ walk = IdleWalk
    /\ InitAgentIdle

NextFetch == QCall \/ QPage \/ QNextResolve

SpecFetch == InitFetch /\ [][NextFetch]_vars

\* The page walk of query_crm_data against an upstream of any depth, the
\* rows held being represented by their number (the loop reads nothing
\* else of them): walk.rows is len(all_records)
WalkCall ==
    /\ walk.pc = "idle"
    /\ walk' = [IdleWalk EXCEPT
                  !.pc = "loop",
                  !.page_size = PageSize(args.max_records),
                  !.current_page = FirstPage(args.iterate, args.page_number),
                  !.limit = IterationLimit(args.max_records, args.iterate)]
    /\ UNCHANGED <<clockVars, cacheVars, authVars, envVars, fetchVars, agentVars>>

\* the numbers of rows the upstream answers a request for page_size rows with
RowCountChoices(page_size) == {0, page_size - 1, page_size + upstream_extra}

WalkPage ==
    /\ walk.pc = "loop"
    /\ \E status \in Statuses :
         IF status = "ok"
         THEN \E n \in RowCountChoices(walk.page_size) :
                LET st == LoopStep(walk.rows, n, args.iterate, walk.limit,
                                   walk.page_size, walk.current_page)
                IN  walk' = [walk EXCEPT
                               !.pc = IF st.stop THEN "done" ELSE "loop",
                               !.rows = st.len,
                               !.current_page = st.page,
                               !.last = n,
                               !.reqs = Append(walk.reqs, walk.current_page)]
         ELSE walk' = [walk EXCEPT
                         !.pc = "raised",
                         !.reqs = Append(walk.reqs, walk.current_page)]
    /\ UNCHANGED <<clockVars, cacheVars, authVars, envVars, fetchVars, agentVars>>

InitPages ==
    /\ InitClock
    /\ InitCache
    /\ ctx_token = HeaderToken
    /\ session = [access_token |-> NoToken, expires_at |-> 0]
    /\ ui_base = FALSE
    /\ upstream_depth = -1
    /\ upstream_extra \in {0, 1}
    /\ args \in [filters : {<<>>}, max_records : {0, 2, 25, 40000},
                 iterate : BOOLEAN, page_number : {1, 2}]
    /\ InitFetchLocals
    /\ walk = IdleWalk
    /\ InitAgentIdle

NextPages == WalkCall \/ WalkPage

SpecPages == InitPages /\ [][NextPages]_vars

----------------------------------------------------------------------------
(* Filter-maps as insertion-ordered dicts                                  *)

Has(fm, k) == \E i \in 1..Len(fm) : fm[i].key = k

Get(fm, k) == fm[CHOOSE i \in 1..Len(fm) : fm[i].key = k].crit

\* fm.pop(k)
Pop(fm, k) == SelectSeq(fm, LAMBDA e : e.key # k)

\* fm[k] = c: in place when k is a key already, appended otherwise
SetKey(fm, k, c) ==
    IF Has(fm, k)
    THEN [i \in 1..Len(fm) |-> IF fm[i].key = k THEN F(k, c) ELSE fm[i]]
    ELSE Append(fm, F(k, c))

Keys(fm) == [i \in 1..Len(fm) |-> fm[i].key]

\* isinstance(v, list) or a dict whose "value" is a list
IsMulti(c) == c.t = "list" \/ IsDictWithListValue(c)

----------------------------------------------------------------------------
(* Filter resolver: _resolve_smart_filters                                 *)

ResolvableFields == {"created_by_name", "created_by_user", "creator",
                     "assigned_user_name", "assigned_user", "assigned_to"}

TargetApiKey(k) ==
    IF k \in {"created_by_name", "created_by_user", "creator"}
    THEN "created_by" ELSE "assigned_user_id"

HexChars == {"0", "1", "2", "3", "4", "5", "6", "7", "8", "9",
             "a", "b", "c", "d", "e", "f"}

\* re.match(r"^[0-9a-f]{8}-[0-9a-f]{4}", s)
IsIdShaped(s) ==
    /\ Len(s) >= 13
    /\ \A i \in 1..8 : s[i] \in HexChars
    /\ s[9] = "-"
    /\ \A i \in 10..13 : s[i] \in HexChars

RECURSIVE LStrip(_)
LStrip(s) == IF s # <<>> /\ Head(s) = " " THEN LStrip(Tail(s)) ELSE s

RECURSIVE RStrip(_)
RStrip(s) == IF s # <<>> /\ s[Len(s)] = " "
             THEN RStrip(SubSeq(s, 1, Len(s) - 1)) ELSE s

\* str.strip()
Strip(s) == RStrip(LStrip(s))

HasSpace(s) == \E i \in 1..Len(s) : s[i] = " "

\* s.split(" ")[0]
FirstPart(s) ==
    IF HasSpace(s)
    THEN SubSeq(s, 1, (CHOOSE i \in 1..Len(s) :
                          s[i] = " " /\ \A j \in 1..(i - 1) : s[j] # " ") - 1)
    ELSE s

\* " ".join(s.split()[1:]) for a stripped s whose words are one space apart
RestParts(s) ==
    IF HasSpace(s) THEN LStrip(SubSeq(s, Len(FirstPart(s)) + 1, Len(s))) ELSE <<>>


\* what an entity lookup (query_crm_data on Users, max_records = 1) can do:
\* raise, return no record, return a record with an id, return a record
\* whose id is None
LookupOutcomes == {"raise", "none", "hit", "hit_noid"}

\* a lookup whose exception leaves the resolver
Caught_Reraises(outcome) == outcome

\* the try/except around a lookup: what the code after it sees of the lookup;
\* an exception is logged and the loop goes on as after no record
Caught(outcome) == IF outcome = "raise" THEN "none" ELSE outcome

\* a search that asks for the user name first
SearchFields_UserNameFirst == <<"user_name", "name", "first_name", "last_name">>

\* search_fields
SearchFields == <<"name", "user_name", "first_name", "last_name">>

\* the id of the user record a lookup returns
UserId == <<"0", "0", "0", "0", "0", "0", "0", "7", "-", "a", "a", "a", "a">>

\* Conclude without the fallback flag
Conclude_NoFlag(t, key, name_query, target_id) ==
    IF target_id # <<>>
    THEN [t EXCEPT
            !.filters = SetKey(t.filters, TargetApiKey(key), StrV(target_id)),
            !.fdv = SetKey(t.fdv, TargetApiKey(key), name_query)]
    ELSE LET original_val == Strip(PyStr(name_query)) IN
         IF HasSpace(original_val)
         THEN [t EXCEPT
                 !.filters = SetKey(t.filters, key,
                                    ListC(<<StrV(original_val),
                                            StrV(FirstPart(original_val))>>))]
         ELSE [t EXCEPT !.filters = SetKey(t.filters, key, name_query)]

\* the end of the loop body for one key: the filter is rewritten to the id
\* found, or degraded
Conclude(t, key, name_query, target_id) ==
    IF target_id # <<>>
    THEN [t EXCEPT
            !.filters = SetKey(t.filters, TargetApiKey(key), StrV(target_id)),
            !.fdv = SetKey(t.fdv, TargetApiKey(key), name_query)]
    ELSE LET original_val == Strip(PyStr(name_query)) IN
         IF HasSpace(original_val)
         THEN [t EXCEPT
                 !.filters = SetKey(t.filters, key,
                                    ListC(<<StrV(original_val),
                                            StrV(FirstPart(original_val))>>)),
                 !.merge_fallback = TRUE]
         ELSE [t EXCEPT !.filters = SetKey(t.filters, key, name_query)]

ConcludeMessages(name_query, target_id) ==
    IF target_id # <<>> THEN <<"Resolved to ID">>
    ELSE IF HasSpace(Strip(PyStr(name_query)))
         THEN <<"User resolution failed">> ELSE <<>>

\* entry: filter_display_values is created, the keys are snapshotted
ResolveBegin ==
    /\ rs.pc = "idle"
    /\ task.filters # <<>>
    /\ rs' = [IdleRs EXCEPT !.pc = "key", !.keys = Keys(task.filters), !.ki = 1]
    /\ UNCHANGED <<task, task0, messages, clockVars, cacheVars, toolVars, taskVars, run, ident, calc>>

\* the loop body for the next key, up to its first lookup
\* (kstart: history, how many lookups were done before this key)
ResolveKey ==
    /\ rs.pc = "key"
    /\ IF rs.ki > Len(rs.keys)
       THEN /\ rs' = [rs EXCEPT !.pc = "done"]
            /\ UNCHANGED <<task, messages>>
       ELSE LET key == rs.keys[rs.ki]
                val == Get(task.filters, key)
            IN  IF key \notin ResolvableFields \/ IsMulti(val)
                THEN /\ rs' = [rs EXCEPT !.ki = rs.ki + 1]
                     /\ UNCHANGED <<task, messages>>
                ELSE IF IsIdShaped(PyStr(val))
                THEN /\ task' = [task EXCEPT
                                   !.filters = SetKey(Pop(task.filters, key),
                                                      TargetApiKey(key), val)]
                     /\ rs' = [rs EXCEPT !.ki = rs.ki + 1]
                     /\ UNCHANGED messages
                ELSE /\ task' = [task EXCEPT !.filters = Pop(task.filters, key)]
                     /\ messages' = Append(messages, "Resolving User ID")
                     /\ rs' = [rs EXCEPT !.pc = "lookup", !.fi = 1,
                                         !.name_query = val, !.target_id = <<>>,
                                         !.kstart = Len(rs.lookups)]
    /\ UNCHANGED <<task0, clockVars, cacheVars, toolVars, taskVars, run, ident, calc>>

\* the rows a lookup that matched makes query_crm_data cache
UserRows(id) == <<[id |-> id, module |-> "Users"]>>

\* the end of the loop body for the key in hand
ResolveConclude(target_id) ==
    /\ task' = Conclude(task, rs.keys[rs.ki], rs.name_query, target_id)
    /\ messages' = messages \o ConcludeMessages(rs.name_query, target_id)

\* query_crm_data caches the non-empty result of a lookup
LookupCaches(outcome) ==
    IF outcome \in {"hit", "hit_noid"}
    THEN \E h \in NewHandleChoices :
           Caches(h, UserRows(IF outcome = "hit" THEN UserId ELSE <<>>))
    ELSE UNCHANGED <<data_cache, issued>>

\* one lookup on the next search field, and what follows it without another
\* lookup (outcomes: history, what each lookup did)
ResolveLookup ==
    /\ rs.pc = "lookup"
    /\ \E outcome \in LookupOutcomes :
         LET field == SearchFields[rs.fi]
             asked == Append(rs.lookups,
                             <<F(field, rs.name_query)>>)
             seen == Caught(outcome)
             target_id == IF seen = "hit" THEN UserId ELSE <<>>
             last == seen \in {"hit", "hit_noid"} \/ rs.fi = Len(SearchFields)
             split == /\ target_id = <<>>
                      /\ rs.name_query.t = "str"
                      /\ HasSpace(Strip(PyStr(rs.name_query)))
             r == [rs EXCEPT !.lookups = asked,
                             !.outcomes = Append(rs.outcomes, outcome)]
         IN  /\ LookupCaches(outcome)
             /\ mcp_log' = mcp_log \o QueryLog(outcome # "raise")
             /\ IF seen = "raise"
                THEN /\ rs' = [r EXCEPT !.pc = "raised"]
                     /\ UNCHANGED <<task, messages>>
                ELSE IF ~last
                THEN /\ rs' = [r EXCEPT !.fi = rs.fi + 1]
                     /\ UNCHANGED <<task, messages>>
                ELSE IF split
                THEN /\ rs' = [r EXCEPT !.pc = "split"]
                     /\ UNCHANGED <<task, messages>>
                ELSE /\ rs' = [r EXCEPT !.pc = "key", !.ki = rs.ki + 1,
                                        !.target_id = target_id]
                     /\ ResolveConclude(target_id)
    /\ UNCHANGED <<task0, lookup, clockVars, toolRest, taskVars, run, ident, calc>>

\* the lookup on first_name and last_name, and the end of the loop body
ResolveSplit ==
    /\ rs.pc = "split"
    /\ \E outcome \in LookupOutcomes :
         LET s == Strip(PyStr(rs.name_query))
             asked == Append(rs.lookups,
                             <<F("first_name", StrV(FirstPart(s))),
                               F("last_name", StrV(RestParts(s)))>>)
             seen == Caught(outcome)
             target_id == IF seen = "hit" THEN UserId ELSE <<>>
             r == [rs EXCEPT !.lookups = asked,
                             !.outcomes = Append(rs.outcomes, outcome)]
         IN  /\ LookupCaches(outcome)
             /\ mcp_log' = mcp_log \o QueryLog(outcome # "raise")
             /\ IF seen = "raise"
                THEN /\ rs' = [r EXCEPT !.pc = "raised"]
                     /\ UNCHANGED <<task, messages>>
                ELSE /\ rs' = [r EXCEPT !.pc = "key", !.ki = rs.ki + 1,
                                        !.target_id = target_id]
                     /\ ResolveConclude(target_id)
    /\ UNCHANGED <<task0, lookup, clockVars, toolRest, taskVars, run, ident, calc>>

NameMulti == <<"j", " ", "d">>
NameSingle == <<"j">>
IdText == <<"0", "0", "0", "0", "0", "0", "0", "3", "-", "b", "b", "b", "b">>

\* the filter-maps the classifier hands to the resolver
ResolverFilterMaps == {
    <<F("assigned_user_name", StrV(NameMulti))>>,
    <<F("assigned_user_name", StrV(NameSingle))>>,
    <<F("assigned_user_name", StrV(IdText))>>,
    <<F("assigned_user_name", ListC(<<StrV(NameSingle), StrV(<<"d">>)>>))>>,
    <<F("assigned_to", OpC("eq", ListC(<<StrV(NameSingle), StrV(<<"d">>)>>)))>>,
    <<F("status", StrV(<<"b">>)), F("creator", StrV(NameMulti))>>,
    <<F("assigned_user", StrV(NameSingle)), F("assigned_to", StrV(NameMulti))>>,
    <<F("creator", NumV(5)), F("status", StrV(<<"b">>))>> }

InitTools ==
    /\ InitClock
    /\ InitCache
    /\ ctx_token = HeaderToken
    /\ session = [access_token |-> NoToken, expires_at |-> 0]
    /\ ui_base = FALSE
    /\ upstream_depth = 0
    /\ upstream_extra = 0
    /\ args = [filters |-> <<>>, max_records |-> 0, iterate |-> FALSE,
               page_number |-> 1]
    /\ InitFetchLocals
    /\ walk = IdleWalk

InitResolve ==
    /\ InitTools
    /\ task \in {NewTask("list", f, 0) : f \in ResolverFilterMaps}
    /\ task0 = task
    /\ rs = IdleRs
    /\ messages = <<>>
    /\ wf = IdleWf
    /\ fan = IdleFan
    /\ run = IdleRun
    /\ ident = IdleIdent
    /\ calc = IdleCalc

NextResolve == ResolveBegin \/ ResolveKey \/ ResolveLookup \/ ResolveSplit

SpecResolve == InitResolve /\ [][NextResolve]_vars

----------------------------------------------------------------------------
(* query_crm_data as one step of the agent                                 *)

FULL_FETCH_LIMIT == 40000

Take(seq, n) == SubSeq(seq, 1, IF Len(seq) < n THEN Len(seq) ELSE n)

\* the keyword arguments of one query_crm_data call
\* (fields_only: <<>> when the caller names no field)
Call(filters, max_records, page_number, iterate) ==
    [filters |-> filters, max_records |-> max_records,
     page_number |-> page_number, iterate |-> iterate, fields_only |-> <<>>]

\* the keyword arguments of the count query of the list workflow: every
\* page, no record budget, the id field alone
CountCall(filters) == [Call(filters, 0, 1, TRUE) EXCEPT !.fields_only = <<"id">>]

\* the rows the upstream can hold for one call: what it returns over the
\* pages the call walks, taken together
UpstreamRows == {<<>>, <<R1>>, <<R2, R3>>, <<R1, R2, R3>>, FullPage(PAGE_SIZE)}

\* all_records when the loop is left: the one page asked, or the pages walked
\* up to the record budget
QueryRows(rows, call) ==
    IF call.iterate
    THEN Take(rows, IterationLimit(call.max_records, TRUE))
    ELSE rows

\* what the call returns, h being the handle _cache_data draws
QueryResult(rows, call, h) ==
    LET recs == ReturnedRecords(QueryRows(rows, call), call.filters, ui_base)
    IN  [count |-> Len(recs), records |-> recs,
         data_id |-> IF Len(recs) > 0 THEN h ELSE None]

\* the cache write of the call
FetchCaches(res) ==
    IF res.count > 0 THEN Caches(res.data_id, res.records)
    ELSE UNCHANGED <<data_cache, issued>>

----------------------------------------------------------------------------
(* Fan-out executor: _fetch_data_handling_multi_values                     *)

\* the first field holding a list or a dict whose "value" is a list (0: none)
MultiIndex(filters) ==
    IF \E i \in 1..Len(filters) : IsMulti(filters[i].crit)
    THEN CHOOSE i \in 1..Len(filters) :
             /\ IsMulti(filters[i].crit)
             /\ \A j \in 1..(i - 1) : ~IsMulti(filters[j].crit)
    ELSE 0

MultiValues(c) == IF c.t = "list" THEN c.items ELSE c.value.items

\* filters.copy() with the multi-value key set to one value
SingleFilter(filters, key, val) == SetKey(filters, key, val)

RECURSIVE Flatten(_)
Flatten(results) ==
    IF results = <<>> THEN <<>> ELSE Head(results) \o Flatten(Tail(results))

RECURSIVE DedupById(_, _)
DedupById(recs, seen_ids) ==
    IF recs = <<>> THEN <<>>
    ELSE IF Head(recs).id \in seen_ids
    THEN DedupById(Tail(recs), seen_ids)
    ELSE <<Head(recs)>> \o DedupById(Tail(recs), seen_ids \cup {Head(recs).id})

\* a merge that keeps every record of every sub-result
MergeRecords_NoDedup(results) == Flatten(results)

RECURSIVE DedupKeepLast(_)
DedupKeepLast(recs) ==
    IF recs = <<>> THEN <<>>
    ELSE IF \E j \in 2..Len(recs) : recs[j].id = Head(recs).id
    THEN DedupKeepLast(Tail(recs))
    ELSE <<Head(recs)>> \o DedupKeepLast(Tail(recs))

\* a merge that keeps a record where the last value returning it puts it
MergeRecords_KeepLast(results) == DedupKeepLast(Flatten(results))

\* all_records: the sub-results in the order of the values, a record kept
\* the first time its id is seen
MergeRecords(results) == DedupById(Flatten(results), {})

\* the limit the workflow passes to its fetch
FetchLimit(t) ==
    IF t.type = "chart" THEN t.limit
    ELSE IF t.limit # 0 THEN t.limit ELSE FULL_FETCH_LIMIT

\* _process_task from the return of the resolver to the call of the workflow:
\* the page of the task is written into the task
ProcessDispatch ==
    /\ wf.pc = "idle"
    /\ rs.pc = "done" \/ (rs.pc = "idle" /\ task.filters = <<>>)
    /\ \E page \in 1..MaxPage :
         task' = [task EXCEPT !.page = page]
    /\ wf' = [wf EXCEPT !.pc = "start"]
    /\ UNCHANGED <<task0, rs, messages, fan, clockVars, cacheVars, toolVars, run,
                   ident, calc>>

\* the workflow up to its first query_crm_data call
WfStart ==
    /\ wf.pc = "start"
    /\ LET mi == MultiIndex(task.filters)
           key == task.filters[mi].key
           values == MultiValues(task.filters[mi].crit)
       IN  IF task.type = "list"
           THEN IF mi = 0
                THEN /\ messages' = Append(messages, "Querying (Page)")
                     /\ wf' = [wf EXCEPT
                                 !.pc = "direct",
                                 !.calls = <<Call(task.filters, FetchLimit(task),
                                                  task.page, FALSE)>>]
                     /\ UNCHANGED fan
                ELSE /\ messages' = Append(messages, "Generating separate reports")
                     /\ wf' = [wf EXCEPT !.pc = "split", !.si = 1]
                     /\ fan' = [fan EXCEPT !.key = key, !.values = values]
           ELSE IF mi = 0
                THEN /\ messages' = Append(messages, "Querying")
                     /\ wf' = [wf EXCEPT
                                 !.pc = "direct",
                                 !.calls = <<Call(task.filters, FetchLimit(task),
                                                  1, TRUE)>>]
                     /\ UNCHANGED fan
                ELSE /\ messages' = messages \o <<"Querying", "Splitting query">>
                     /\ wf' = [wf EXCEPT
                                 !.pc = "fan",
                                 !.calls = [i \in 1..Len(values) |->
                                              Call(SingleFilter(task.filters, key,
                                                                values[i]),
                                                   FetchLimit(task), 1, TRUE)]]
                     /\ fan' = [key |-> key, values |-> values,
                                pending |-> 1..Len(values),
                                res |-> [i \in 1..Len(values) |-> NoResult],
                                order |-> <<>>]
    /\ UNCHANGED <<task, task0, rs, clockVars, cacheVars, toolVars, run, ident, calc>>

\* one sub-fetch returns or raises; gather re-raises the first exception
\* while the other threads run on
FanComplete ==
    /\ wf.pc \in {"fan", "raised"}
    /\ \E i \in fan.pending, ok \in BOOLEAN :
         /\ mcp_log' = mcp_log \o QueryLog(ok)
         /\ IF ok
            THEN \E rows \in UpstreamRows, h \in NewHandleChoices :
                   LET res == QueryResult(rows, wf.calls[i], h) IN
                   /\ fan' = [fan EXCEPT !.pending = fan.pending \ {i},
                                         !.res[i] = res,
                                         !.order = Append(fan.order, i)]
                   /\ FetchCaches(res)
                   /\ UNCHANGED wf
            ELSE /\ fan' = [fan EXCEPT !.pending = fan.pending \ {i}]
                 /\ wf' = [wf EXCEPT !.pc = "raised"]
                 /\ UNCHANGED <<data_cache, issued>>
    /\ UNCHANGED <<resolveVars, lookup, clockVars, toolRest, run, ident, calc>>

\* every sub-fetch has returned: the merge, and the cache write of its result
FanMerge ==
    /\ wf.pc = "fan"
    /\ fan.pending = {}
    /\ \E h \in NewHandleChoices :
         LET all_records == MergeRecords([i \in 1..Len(fan.res) |->
                                             fan.res[i].records])
         IN  /\ Caches(h, all_records)
             /\ wf' = [wf EXCEPT
                         !.pc = "fetched",
                         !.fetched = [count |-> Len(all_records),
                                      records |-> all_records, data_id |-> h]]
    /\ UNCHANGED <<resolveVars, fan, lookup, clockVars, toolVars, run, ident, calc>>

\* the fetch of a filter-map without a list returns or raises
DirectFetch ==
    /\ wf.pc = "direct"
    /\ \E ok \in BOOLEAN :
         /\ mcp_log' = mcp_log \o QueryLog(ok)
         /\ IF ok
            THEN \E rows \in UpstreamRows, h \in NewHandleChoices :
                   LET res == QueryResult(rows, wf.calls[1], h) IN
                   /\ wf' = [wf EXCEPT !.pc = "fetched", !.fetched = res]
                   /\ FetchCaches(res)
            ELSE /\ wf' = [wf EXCEPT !.pc = "raised"]
                 /\ UNCHANGED <<data_cache, issued>>
    /\ UNCHANGED <<resolveVars, fan, lookup, clockVars, toolRest, run, ident, calc>>

----------------------------------------------------------------------------
(* Workflows: _execute_sum / count / list / chart_workflow                 *)

VISIBLE_ROWS == 20

\* a check that asks for more than a full first page
ShouldVerifyTotal_MoreThanFull(fetched_count, user_limit) ==
    fetched_count > VISIBLE_ROWS /\ (user_limit = 0 \/ user_limit > VISIBLE_ROWS)

\* should_verify_total in the list workflow (user_limit = 0 stands for None)
ShouldVerifyTotal(fetched_count, user_limit) ==
    fetched_count >= VISIBLE_ROWS /\ (user_limit = 0 \/ user_limit > VISIBLE_ROWS)

\* a list result that leaves its records out
ListEnvelope_NoRecords(res, final_total) ==
    [Envelope({"type", "module", "count", "total_count", "crm_link", "table"},
              "list", res.count, <<>>)
     EXCEPT !.total_count = final_total]

\* base_resp of the list workflow
ListEnvelope(res, final_total) ==
    [Envelope({"type", "module", "count", "total_count", "records", "crm_link",
               "table"} \cup (IF final_total = 0 THEN {"message"} ELSE {}),
              "list", res.count, res.records)
     EXCEPT !.total_count = final_total]

\* the workflow from the return of its fetch to its next await or its return
WfFinish ==
    /\ wf.pc = "fetched"
    /\ LET res == wf.fetched
           shown == Take(res.records, VISIBLE_ROWS)
       IN  CASE task.type = "sum" ->
                  IF res.count = 0
                  THEN /\ messages' = Append(messages, "Found records")
                       /\ wf' = [wf EXCEPT
                                   !.pc = "done",
                                   !.env = Envelope({"type", "module", "count",
                                                     "records", "summary"},
                                                    "sum", 0, shown)]
                  ELSE /\ messages' = messages \o
                                        <<"Found records", "Calculating totals">>
                       /\ wf' = [wf EXCEPT !.pc = "agg"]
             [] task.type = "count" ->
                  /\ messages' = Append(messages, "Found records")
                  /\ wf' = [wf EXCEPT
                              !.pc = "done",
                              !.env = Envelope({"type", "module", "count",
                                                "message", "records"},
                                               "count", res.count, shown)]
             [] task.type = "chart" ->
                  IF res.count = 0
                  THEN /\ wf' = [wf EXCEPT
                                   !.pc = "done",
                                   !.env = Envelope({"type", "module", "message"},
                                                    "chart", 0, <<>>)]
                       /\ UNCHANGED messages
                  ELSE /\ messages' = messages \o
                                        <<"Found records", "Generating chart">>
                       /\ wf' = [wf EXCEPT !.pc = "agg"]
             [] OTHER ->
                  IF ShouldVerifyTotal(res.count, task.limit)
                  THEN /\ messages' = Append(messages, "Verifying total count")
                       /\ wf' = [wf EXCEPT
                                   !.pc = "verify",
                                   !.calls = Append(wf.calls,
                                                    CountCall(task.filters))]
                  ELSE /\ wf' = [wf EXCEPT !.pc = "done",
                                           !.env = ListEnvelope(res, res.count)]
                       /\ UNCHANGED messages
    /\ UNCHANGED <<task, task0, rs, fan, clockVars, cacheVars, toolVars, run, ident, calc>>

\* the records an aggregation works on, given the fetch result: sum reads the
\* cache under data_id when there is one, chart the records when there are any
AggregationInput(type, res) ==
    IF type = "sum"
    THEN IF res.data_id # None
         THEN GetCachedData(data_cache, res.data_id, now).data
         ELSE res.records
    ELSE IF res.records # <<>> THEN res.records
    ELSE IF res.data_id # None
    THEN GetCachedData(data_cache, res.data_id, now).data
    ELSE <<>>

\* calculate_total_amount (its failure leaves the workflow) or
\* create_chart_from_crm_data (its failure becomes the chart's message)
Aggregate ==
    /\ wf.pc = "agg"
    /\ LET input == AggregationInput(task.type, wf.fetched)
           shown == Take(wf.fetched.records, VISIBLE_ROWS)
       IN  IF task.type = "sum"
           THEN /\ mcp_log' = mcp_log \o
                     <<"Calculate Total Amount (amount)",
                       IF input # <<>> THEN "Calculation Complete"
                       ELSE "Calculation Failed">>
                /\ wf' = IF input # <<>>
                         THEN [wf EXCEPT
                                 !.pc = "done",
                                 !.aggs = Append(wf.aggs, "calculate_total_amount"),
                                 !.env = [Envelope({"type", "module", "count",
                                                    "records", "summary",
                                                    "metadata"},
                                                   "sum", wf.fetched.count, shown)
                                          EXCEPT !.agg = input]]
                         ELSE [wf EXCEPT
                                 !.pc = "raised",
                                 !.aggs = Append(wf.aggs, "calculate_total_amount")]
           ELSE \E plotted \in BOOLEAN :
                /\ wf' = [wf EXCEPT
                            !.pc = "done",
                            !.aggs = Append(wf.aggs, "create_chart_from_crm_data"),
                            !.env = [Envelope({"type", "module", "message"} \cup
                                              (IF plotted /\ input # <<>>
                                               THEN {"plot_data"} ELSE {}),
                                              "chart", 0, <<>>)
                                     EXCEPT !.agg = input]]
                /\ UNCHANGED mcp_log
    /\ UNCHANGED <<resolveVars, fan, clockVars, cacheVars, toolRest, run, ident, calc>>

\* an exception of the count query that leaves the list workflow
CountFailed_Propagates(w) == [w EXCEPT !.pc = "raised", !.verify = "raised"]

\* the except clause around the count query: final_total = fetched_count
CountFailed(w) ==
    [w EXCEPT !.pc = "done", !.verify = "raised",
              !.env = ListEnvelope(w.fetched, w.fetched.count)]

\* the background count query of the list workflow returns or raises
\* (verify, counted: history, how the count query ended and what it counted)
ListVerify ==
    /\ wf.pc = "verify"
    /\ \E ok \in BOOLEAN :
         /\ mcp_log' = mcp_log \o QueryLog(ok)
         /\ IF ok
            THEN \E rows \in UpstreamRows, h \in NewHandleChoices :
                   LET count_result == QueryResult(rows, wf.calls[Len(wf.calls)], h)
                   IN  /\ wf' = [wf EXCEPT
                                   !.pc = "done",
                                   !.verify = "ok",
                                   !.counted = count_result.count,
                                   !.env = ListEnvelope(wf.fetched,
                                                        count_result.count)]
                       /\ FetchCaches(count_result)
            ELSE /\ wf' = CountFailed(wf)
                 /\ UNCHANGED <<data_cache, issued>>
    /\ UNCHANGED <<resolveVars, fan, lookup, clockVars, toolRest, run, ident, calc>>

\* a sub-query that writes its value into the filters of the task
Copied_Aliased(filters, sub_filters) == sub_filters

\* sub_filters = filters.copy(): the value of the sub-query is written into
\* the copy, the filters of the task are what they were
Copied(filters, sub_filters) == filters

\* the list workflow on a multi-value filter: the query for the next value
\* returns or raises; after the last one the sections are returned
ListSub ==
    /\ wf.pc = "split"
    /\ \E ok \in BOOLEAN :
         LET val == fan.values[wf.si]
             sub_filters == SingleFilter(task.filters, fan.key, val)
             call == Call(sub_filters, FetchLimit(task), task.page, FALSE)
         IN  /\ mcp_log' = mcp_log \o QueryLog(ok)
             /\ task' = [task EXCEPT
                           !.filters = Copied(task.filters, sub_filters)]
             /\ IF ok
                THEN \E rows \in UpstreamRows, h \in NewHandleChoices :
                       LET res == QueryResult(rows, call, h)
                           section == [label |-> PyStr(val), count |-> res.count,
                                       records |-> res.records,
                                       crm_link |-> res.count > 0]
                           subs == Append(wf.subs, section)
                       IN  /\ wf' = [wf EXCEPT
                                       !.calls = Append(wf.calls, call),
                                       !.subs = subs,
                                       !.si = wf.si + 1,
                                       !.pc = IF wf.si = Len(fan.values)
                                              THEN "done" ELSE "split",
                                       !.env = IF wf.si = Len(fan.values)
                                               THEN [Envelope({"type", "module",
                                                               "sub_results"},
                                                              "multi_list", 0, <<>>)
                                                     EXCEPT !.sub_results = subs]
                                               ELSE wf.env]
                           /\ FetchCaches(res)
                ELSE /\ wf' = [wf EXCEPT !.calls = Append(wf.calls, call),
                                         !.pc = "raised"]
                     /\ UNCHANGED <<data_cache, issued>>
    /\ UNCHANGED <<task0, rs, messages, fan, lookup, clockVars, toolRest, run,
                   ident, calc>>

\* a merge that keeps every section
MergeSubResults_KeepAll(sub_results, flagged) == sub_results

\* the sections _process_task renders of a multi_list result: for a flagged
\* task the ones with records, or the first one when none has any
MergeSubResults(sub_results, flagged) ==
    IF flagged
    THEN LET successful_subs == SelectSeq(sub_results, LAMBDA sub : sub.count > 0)
         IN  IF successful_subs # <<>> THEN successful_subs
             ELSE Take(sub_results, 1)
    ELSE sub_results

\* _process_task after the workflow has returned: the sections are chosen and
\* rendered, or the one result is; the rendering returns or raises
\* (kept: history, the sections rendered)
ProcessMerge ==
    /\ wf.pc = "done"
    /\ \E ok \in BOOLEAN :
         LET sub_results == MergeSubResults(wf.env.sub_results,
                                            task.merge_fallback)
         IN  IF wf.env.type = "multi_list"
             THEN /\ wf' = [wf EXCEPT
                              !.pc = IF ok \/ sub_results = <<>>
                                     THEN "merged" ELSE "failed",
                              !.kept = sub_results]
                  /\ messages' = messages \o
                         [i \in 1..Len(sub_results) |->
                              "Generating full response for"]
             ELSE /\ wf' = [wf EXCEPT !.pc = IF ok THEN "merged" ELSE "failed"]
                  /\ messages' = Append(messages, "Generating full response")
    /\ UNCHANGED <<task, task0, rs, fan, clockVars, cacheVars, toolVars, run,
                   ident, calc>>

StatusB == <<"b">>
StatusA == <<"a">>

\* the filter-maps of the tasks executed
TaskFilterMaps == {
    <<>>,
    <<F("status", StrV(StatusB))>>,
    <<F("status", ListC(<<StrV(StatusB), StrV(StatusA)>>))>>,
    <<F("amount", NumV(5)),
      F("status", OpC("eq", ListC(<<StrV(StatusB), StrV(<<"x">>)>>)))>>,
    <<F("status", ListC(<<StrV(StatusB)>>)),
      F("name", ListC(<<StrV(StatusA), StrV(<<"x">>)>>))>> }

TaskTypes == {"list", "sum", "count", "chart"}

\* the limit of the task (0: none)
TaskLimits == {0, 2, 20, 21}

InitTask ==
    /\ InitTools
    /\ task \in {NewTask(type, f, limit) :
                    type \in TaskTypes, f \in TaskFilterMaps, limit \in TaskLimits}
    /\ task0 = task
    /\ rs = [IdleRs EXCEPT !.pc = "done"]
    /\ messages = <<>>
    /\ wf = IdleWf
    /\ fan = IdleFan
    /\ run = IdleRun
    /\ ident = IdleIdent
    /\ calc = IdleCalc

NextTask ==
    \/ ProcessDispatch
    \/ WfStart
    \/ FanComplete
    \/ FanMerge
    \/ DirectFetch
    \/ WfFinish
    \/ Aggregate
    \/ ListVerify
    \/ ListSub
    \/ ProcessMerge

SpecTask == InitTask /\ [][NextTask]_vars

\* another task stores the records of its fetch: _cache_data(records)
OtherCaches ==
    /\ \E h \in NewHandleChoices :
         Caches(h, ProcessRecords(<<R1>>, ui_base))
    /\ UNCHANGED <<lookup, clockVars, toolVars, agentVars>>

\* One sum task from its dispatch to its result, while time passes, other
\* tasks fetch and the cache is cleared
SumFilterMaps == {<<>>, <<F("status", StrV(StatusB))>>}

InitRace ==
    /\ InitTools
    /\ task \in {NewTask("sum", f, 0) : f \in SumFilterMaps}
    /\ task0 = task
    /\ rs = [IdleRs EXCEPT !.pc = "done"]
    /\ messages = <<>>
    /\ wf = IdleWf
    /\ fan = IdleFan
    /\ run = IdleRun
    /\ ident = IdleIdent
    /\ calc = IdleCalc

NextRace ==
    \/ ProcessDispatch
    \/ WfStart
    \/ DirectFetch
    \/ WfFinish
    \/ Aggregate
    \/ ProcessMerge
    \/ Tick
    \/ OtherCaches
    \/ ClearCrmCache

SpecRace == InitRace /\ [][NextRace]_vars

----------------------------------------------------------------------------
(* The execution log: mcp_logger, one object for every request             *)

MaxSteps == 2

Requests == {1, 2}

\* a request that has not called run_async yet
IdleRequest ==
    [pc |-> "idle", own |-> 0, step |-> 0,
     out |-> [total_steps |-> 0, execution_log |-> <<>>, by |-> <<>>]]

\* calc.current_step is mcp_logger.current_step and mcp_log the titles of
\* mcp_logger.steps (by: history, the request each step was logged for;
\* own: history, how many steps were logged for the request)
InitLog ==
    /\ InitTools
    /\ task = NewTask("list", <<>>, 0)
    /\ task0 = task
    /\ rs = IdleRs
    /\ messages = <<>>
    /\ wf = IdleWf
    /\ fan = IdleFan
    /\ run = IdleRun
    /\ ident = IdleIdent
    /\ calc = [pc |-> "log", current_step |-> 0, by |-> <<>>,
               rq |-> [r \in Requests |-> IdleRequest]]

\* run_async of request r up to its first await: the log is cleared and the
\* request logged
LogRunBegin ==
    /\ \E r \in Requests :
         /\ calc.rq[r].pc = "idle"
         /\ calc' = [calc EXCEPT !.current_step = 1, !.by = <<r>>,
                                 !.rq[r].pc = "work", !.rq[r].own = 1]
    /\ mcp_log' = <<"User Request">>
    /\ UNCHANGED <<clockVars, cacheVars, toolRest, resolveVars, taskVars, run,
                   ident>>

\* log_step in the thread of a tool called for request r, up to the append:
\* self.current_step += 1
LogStepCount ==
    /\ \E r \in Requests :
         /\ calc.rq[r].pc = "work"
         /\ calc.rq[r].own <= MaxSteps
         /\ calc' = [calc EXCEPT !.current_step = calc.current_step + 1,
                                 !.rq[r].pc = "append",
                                 !.rq[r].step = calc.current_step + 1]
    /\ UNCHANGED <<clockVars, cacheVars, toolVars, resolveVars, taskVars, run,
                   ident>>

\* the rest of log_step: self.steps.append(step)
LogStepAppend ==
    /\ \E r \in Requests :
         /\ calc.rq[r].pc = "append"
         /\ calc' = [calc EXCEPT !.by = Append(calc.by, r),
                                 !.rq[r].pc = "work",
                                 !.rq[r].own = calc.rq[r].own + 1]
    /\ mcp_log' = Append(mcp_log, "Query CRM Data")
    /\ UNCHANGED <<clockVars, cacheVars, toolRest, resolveVars, taskVars, run,
                   ident>>

\* the end of run_async of request r: get_execution_log() goes into the
\* metadata of its result
LogRunEnd ==
    /\ \E r \in Requests :
         /\ calc.rq[r].pc = "work"
         /\ calc' = [calc EXCEPT
                        !.rq[r].pc = "returned",
                        !.rq[r].out = [total_steps |-> calc.current_step,
                                       execution_log |-> mcp_log,
                                       by |-> calc.by]]
    /\ UNCHANGED <<clockVars, cacheVars, toolVars, resolveVars, taskVars, run,
                   ident>>

NextLog ==
    \/ LogRunBegin
    \/ LogStepCount
    \/ LogStepAppend
    \/ LogRunEnd

SpecLog == InitLog /\ [][NextLog]_vars

\* One list task from the classifier to the rendering of its result: the
\* resolver, the dispatch, the list workflow, the choice of the sections
FallbackFilterMaps == {
    <<F("assigned_user_name", StrV(NameMulti))>>,
    <<F("status", ListC(<<StrV(StatusB), StrV(StatusA)>>)),
      F("creator", StrV(NameSingle))>>,
    <<F("status", ListC(<<StrV(StatusB), StrV(StatusA)>>)),
      F("creator", StrV(NameMulti))>> }

InitFallback ==
    /\ InitTools
    /\ task \in {NewTask("list", f, 0) : f \in FallbackFilterMaps}
    /\ task0 = task
    /\ rs = IdleRs
    /\ messages = <<>>
    /\ wf = IdleWf
    /\ fan = IdleFan
    /\ run = IdleRun
    /\ ident = IdleIdent
    /\ calc = IdleCalc

NextFallback ==
    \/ ResolveBegin
    \/ ResolveKey
    \/ ResolveLookup
    \/ ResolveSplit
    \/ ProcessDispatch
    \/ WfStart
    \/ DirectFetch
    \/ WfFinish
    \/ ListVerify
    \/ ListSub
    \/ ProcessMerge

SpecFallback == InitFallback /\ [][NextFallback]_vars

----------------------------------------------------------------------------
(* JSON text: json.dumps and json.loads                                    *)
(* A JSON value is a scalar (StrV, NumV, NoneV), a list (ListC) or an      *)
(* object, JObj, whose entries are [key, crit] pairs in insertion order.   *)
(* A text is a sequence of characters; a key is one character of it.       *)

\* the keys of the model in the order sorted() puts them (by code point)
JsonKeyOrder ==
    <<"amount", "assigned_to", "assigned_user", "assigned_user_id",
      "assigned_user_name", "created_by", "creator", "end", "name",
      "operator", "start", "status", "value">>

KeyRank(k) == CHOOSE i \in 1..Len(JsonKeyOrder) : JsonKeyOrder[i] = k

\* entries as they were inserted
SortEntries_AsInserted(entries) == entries

RECURSIVE SortEntries(_)
\* sorted(dct.items()) of sort_keys=True
SortEntries(entries) ==
    IF entries = <<>> THEN <<>>
    ELSE LET least == CHOOSE i \in 1..Len(entries) :
                          \A j \in 1..Len(entries) :
                              KeyRank(entries[i].key) <= KeyRank(entries[j].key)
         IN  <<entries[least]>> \o
             SortEntries([j \in 1..(Len(entries) - 1) |->
                             IF j < least THEN entries[j] ELSE entries[j + 1]])

RECURSIVE Dumps(_, _)
RECURSIVE DumpsItems(_, _)
RECURSIVE DumpsEntries(_, _)
\* json.dumps(j, sort_keys=sort_keys)
Dumps(j, sort_keys) ==
    CASE j.t = "str" -> <<"\"">> \o j.s \o <<"\"">>
      [] j.t = "num" -> Digits(j.n)
      [] j.t = "none" -> <<"n", "u", "l", "l">>
      [] j.t = "list" -> <<"[">> \o DumpsItems(j.items, sort_keys) \o <<"]">>
      [] OTHER -> <<"{">> \o
                  DumpsEntries(IF sort_keys THEN SortEntries(j.entries)
                               ELSE j.entries, sort_keys) \o <<"}">>

DumpsItems(items, sort_keys) ==
    IF items = <<>> THEN <<>>
    ELSE Dumps(Head(items), sort_keys) \o
         (IF Len(items) > 1 THEN <<",", " ">> ELSE <<>>) \o
         DumpsItems(Tail(items), sort_keys)

DumpsEntries(entries, sort_keys) ==
    IF entries = <<>> THEN <<>>
    ELSE <<"\"", Head(entries).key, "\"", ":", " ">> \o
         Dumps(Head(entries).crit, sort_keys) \o
         (IF Len(entries) > 1 THEN <<",", " ">> ELSE <<>>) \o
         DumpsEntries(Tail(entries), sort_keys)

DigitChars == {"0", "1", "2", "3", "4", "5", "6", "7", "8", "9"}

DigitValue(c) == CHOOSE d \in 0..9 : DigitChar(d) = c

\* the number of characters of text before the first one that is ch
Before(text, ch) ==
    (CHOOSE i \in 1..Len(text) :
        text[i] = ch /\ \A j \in 1..(i - 1) : text[j] # ch) - 1

RECURSIVE ParseNumber(_, _)
\* the digits at the head of text, read after n
ParseNumber(text, n) ==
    IF text # <<>> /\ Head(text) \in DigitChars
    THEN ParseNumber(Tail(text), 10 * n + DigitValue(Head(text)))
    ELSE [v |-> NumV(n), rest |-> text]

\* text without the ", " that separates two items
SkipSeparator(text) ==
    IF text # <<>> /\ Head(text) = "," THEN SubSeq(text, 3, Len(text)) ELSE text

RECURSIVE ParseValue(_)
RECURSIVE ParseItems(_, _)
RECURSIVE ParseEntries(_, _)
\* the JSON value at the head of text, and the text after it
ParseValue(text) ==
    CASE Head(text) = "\"" ->
           LET n == Before(Tail(text), "\"") IN
           [v |-> StrV(SubSeq(text, 2, n + 1)),
            rest |-> SubSeq(text, n + 3, Len(text))]
      [] Head(text) = "[" -> ParseItems(Tail(text), <<>>)
      [] Head(text) = "{" -> ParseEntries(Tail(text), <<>>)
      [] Head(text) = "n" -> [v |-> NoneV, rest |-> SubSeq(text, 5, Len(text))]
      [] OTHER -> ParseNumber(text, 0)

ParseItems(text, items) ==
    IF Head(text) = "]"
    THEN [v |-> ListC(items), rest |-> Tail(text)]
    ELSE LET item == ParseValue(text) IN
         ParseItems(SkipSeparator(item.rest), Append(items, item.v))

\* an entry is "key": value
ParseEntries(text, entries) ==
    IF Head(text) = "}"
    THEN [v |-> JObj(entries), rest |-> Tail(text)]
    ELSE LET val == ParseValue(SubSeq(text, 6, Len(text))) IN
         ParseEntries(SkipSeparator(val.rest),
                      Append(entries, F(text[2], val.v)))

\* json.loads(text)
Loads(text) == ParseValue(text).v

RECURSIVE ToJson(_)
\* a filter value as the JSON value it is, an operator object with its keys
\* in the order the classifier prompt writes them
ToJson(c) ==
    CASE c.t = "list" -> ListC([i \in 1..Len(c.items) |-> ToJson(c.items[i])])
      [] c.t = "dict" ->
           IF "value" \in c.keys
           THEN JObj(<<F("operator", StrV(<<c.operator>>)),
                       F("value", ToJson(c.value))>>)
           ELSE JObj(<<F("operator", StrV(<<c.operator>>)),
                       F("start", NumV(c.start)), F("end", NumV(c.end))>>)
      [] OTHER -> c

\* the filters dict as a JSON object
FiltersJson(filters) ==
    JObj([i \in 1..Len(filters) |-> F(filters[i].key, ToJson(filters[i].crit))])

----------------------------------------------------------------------------
(* Task identity, _process_task and run_async                              *)

\* _generate_task_id on the filters as a JSON object: the digest of
\* f"{module}|{filter_str}", as the module and the text it is a digest of
TaskIdOfJson(module, j) == [module |-> module, filters |-> Dumps(j, TRUE)]

\* _generate_task_id(module, filters)
GenerateTaskId(module, filters) == TaskIdOfJson(module, FiltersJson(filters))

\* a page that is the request's page whatever the identity
TaskPage_AlwaysRequested(page, target_task_id, current_task_id) == page

\* task_page in _process_task
TaskPage(page, target_task_id, current_task_id) ==
    IF target_task_id # NoTaskId
    THEN IF current_task_id = target_task_id THEN page ELSE 1
    ELSE page

NoInfo == [task_id |-> NoTaskId, module |-> None, page |-> 0]

\* the dict _process_task returns; its content is a sequence of the pieces of
\* text it is made of
TaskResult(type, keys, content, info) ==
    [type |-> type, keys |-> keys, content |-> content, task_info |-> info]

\* result.get("content", "") of a result without content
NoContent == <<>>

PendingResult == TaskResult(None, {}, NoContent, NoInfo)

\* one _process_task coroutine
NewProcess ==
    [pc |-> "begin", raised |-> FALSE, task_id |-> NoTaskId, task_page |-> 0,
     count |-> 0, result |-> PendingResult]

\* an exception that leaves _process_task and gather, into the handler of
\* run_async
Raised_Propagates(r, i) ==
    [r EXCEPT !.pt[i].raised = TRUE, !.pc = "returned",
              !.out = [normal |-> FALSE, parts |-> <<>>, task_list |-> <<>>]]

\* an exception in task i: the handler of _process_task returns the error
\* result
Raised(r, i) ==
    [r EXCEPT !.pt[i].pc = "done", !.pt[i].raised = TRUE,
              !.order = Append(r.order, i),
              !.pt[i].result = TaskResult("error", {"type", "content"},
                                          <<"Task failed: ", "e">>, NoInfo)]

RunTaskA ==
    [NewTask("sum", <<F("status", StrV(StatusB))>>, 0) EXCEPT !.module = "Accounts"]
RunTaskB == [NewTask("list", <<>>, 0) EXCEPT !.module = "Leads"]
RunTaskC == [NewTask("export", <<>>, 0) EXCEPT !.module = "Leads"]

\* what the classifier can return
RunTaskLists ==
    {<<>>, <<RunTaskA>>, <<RunTaskA, RunTaskB>>, <<RunTaskB, RunTaskC>>}

\* an identity no task of the model has
OtherTaskId == GenerateTaskId("Accounts", <<>>)

\* the response of a request without tasks
NoTasksOut ==
    [normal |-> TRUE, parts |-> <<<<"Could not identify module">>>>,
     task_list |-> <<>>]

\* a request arrives: the server makes an agent with a MessageHandler of its
\* own; run_async up to the gather: the log is cleared, the request logged,
\* the query classified, one _process_task created per task
RunCall ==
    /\ run.pc \in {"idle", "returned"}
    /\ run.n < MaxRequests
    /\ \E page \in 1..MaxPage, tasks \in RunTaskLists,
          target \in {NoTaskId, OtherTaskId} \cup
                     {run.prior[k].task_id : k \in 1..Len(run.prior)} :
         /\ run' = [run EXCEPT
                      !.pc = IF tasks = <<>> THEN "returned" ELSE "gather",
                      !.n = run.n + 1,
                      !.page = page,
                      !.target = target,
                      !.tasks = tasks,
                      !.pt = [i \in 1..Len(tasks) |-> NewProcess],
                      !.order = <<>>,
                      !.out = IF tasks = <<>> THEN NoTasksOut ELSE NoOut,
                      !.prior = IF tasks = <<>> THEN <<>> ELSE run.prior]
         /\ messages' = IF Len(tasks) > 1
                        THEN <<"Detected requests">> ELSE <<>>
    /\ mcp_log' = <<"User Request">>
    /\ UNCHANGED <<task, task0, rs, taskVars, clockVars, cacheVars, toolRest, ident, calc>>

\* field_mapping of the modules, on the terms of the model
FieldMapping == [term \in {"Status", "assigned to"} |->
                     IF term = "Status" THEN "status" ELSE "assigned_user_name"]

\* resolve_key of _map_user_terms_to_api_fields
ResolveKeyTerm(term) ==
    IF term \in DOMAIN FieldMapping THEN FieldMapping[term] ELSE term

\* the filters under their mapped keys, a later key over an earlier equal one
RECURSIVE MappedFilters(_)
MappedFilters(raw_filters) ==
    IF raw_filters = <<>> THEN <<>>
    ELSE LET n == Len(raw_filters)
         IN  SetKey(MappedFilters(SubSeq(raw_filters, 1, n - 1)),
                    ResolveKeyTerm(raw_filters[n].key), raw_filters[n].crit)

\* a task object of the classifier's output, dict or not
RawTask(is_dict, type, module, filters) ==
    [is_dict |-> is_dict, type |-> type, module |-> module, filters |-> filters]

\* the classifier's output: text that is no JSON, or a JSON value; of an
\* object, whether it has "tasks" and "type", whether "tasks" is a list
\* (null when not), and the task objects (the object itself when it has "type" and no "tasks")
Response(json, has_tasks, has_type, is_list, tasks) ==
    [json |-> json, has_tasks |-> has_tasks, has_type |-> has_type,
     is_list |-> is_list, tasks |-> tasks]

\* the task _classify_query returns when an exception was caught
DefaultTask(module) == [NewTask("list", <<>>, 0) EXCEPT !.module = module]

\* the loop over parsed["tasks"]: a task on a module that was not identified
\* goes to the only module identified, or is skipped
RECURSIVE FinalTasks(_, _)
FinalTasks(tasks, target_modules) ==
    IF tasks = <<>> THEN <<>>
    ELSE LET raw == Head(tasks)
             rest == FinalTasks(Tail(tasks), target_modules)
             known == \E i \in 1..Len(target_modules) :
                          target_modules[i] = raw.module
             mod == IF known THEN raw.module ELSE target_modules[1]
             t == [NewTask(raw.type, MappedFilters(raw.filters), 0)
                       EXCEPT !.module = mod]
         IN  IF ~known /\ Len(target_modules) # 1 THEN rest
             ELSE <<t>> \o rest

\* an exception in _classify_query is caught and answered with the default
\* task
ClassifyRaises(response) ==
    \/ response.json \in {"invalid", "number"}
    \/ /\ response.json = "object"
       /\ response.has_tasks
       /\ ~response.is_list
    \/ /\ response.json = "object"
       /\ response.has_tasks \/ response.has_type
       /\ \E i \in 1..Len(response.tasks) : ~response.tasks[i].is_dict

\* the tasks _classify_query returns on the modules identified and the text
\* the classifier answered
ClassifyQuery(response, target_modules) ==
    IF target_modules = <<>> THEN <<>>
    ELSE IF ClassifyRaises(response) THEN <<DefaultTask(target_modules[1])>>
    ELSE IF response.json = "object" /\ (response.has_tasks \/ response.has_type)
    THEN FinalTasks(response.tasks, target_modules)
    ELSE <<>>

RawA == RawTask(TRUE, "sum", "Accounts", <<F("Status", StrV(StatusB))>>)
RawB == RawTask(TRUE, "list", "Leads", <<>>)
RawC == RawTask(FALSE, "list", "Leads", <<>>)

\* what the classifier can answer
ClassifierResponses == {
    Response("invalid", FALSE, FALSE, FALSE, <<>>),
    Response("number", FALSE, FALSE, FALSE, <<>>),
    Response("array", FALSE, FALSE, FALSE, <<>>),
    Response("object", FALSE, FALSE, FALSE, <<>>),
    Response("object", FALSE, TRUE, FALSE, <<RawB>>),
    Response("object", TRUE, FALSE, FALSE, <<>>),
    Response("object", TRUE, FALSE, TRUE, <<>>),
    Response("object", TRUE, FALSE, TRUE, <<RawA>>),
    Response("object", TRUE, FALSE, TRUE, <<RawA, RawB>>),
    Response("object", TRUE, TRUE, TRUE, <<RawB, RawC>>) }

\* the modules the first answer can identify
TargetModuleLists == {<<>>, <<"Accounts">>, <<"Accounts", "Leads">>}

\* the first request of an agent: run_async up to the gather, the tasks
\* being what _classify_query makes of the classifier's answer
\* (calc: history, the answer and the modules)
RunClassified ==
    /\ run.pc = "idle"
    /\ \E page \in 1..MaxPage, response \in ClassifierResponses,
          target_modules \in TargetModuleLists :
         LET tasks == ClassifyQuery(response, target_modules)
         IN  /\ run' = [run EXCEPT
                          !.pc = IF tasks = <<>> THEN "returned" ELSE "gather",
                          !.n = run.n + 1,
                          !.page = page,
                          !.tasks = tasks,
                          !.pt = [i \in 1..Len(tasks) |-> NewProcess],
                          !.out = IF tasks = <<>> THEN NoTasksOut ELSE NoOut]
             /\ messages' = IF Len(tasks) > 1
                            THEN <<"Detected requests">> ELSE <<>>
             /\ calc' = [pc |-> "classified", response |-> response,
                         target_modules |-> target_modules]
    /\ mcp_log' = <<"User Request">>
    /\ UNCHANGED <<task, task0, rs, taskVars, clockVars, cacheVars, toolRest,
                   ident>>

\* _process_task up to the fetch of its workflow: the filters are resolved,
\* the identity computed, the page chosen, the workflow entered
ProcessBegin ==
    /\ run.pc = "gather"
    /\ \E i \in 1..Len(run.pt), ok \in BOOLEAN :
         LET t == run.tasks[i]
             current_task_id == GenerateTaskId(t.module, t.filters)
             task_page == TaskPage(run.page, run.target, current_task_id)
         IN  /\ run.pt[i].pc = "begin"
             /\ IF ~ok
                THEN /\ run' = Raised(run, i)
                     /\ UNCHANGED messages
                ELSE IF t.type \notin TaskTypes
                THEN /\ run' = [run EXCEPT
                                  !.order = Append(run.order, i),
                                  !.tasks[i].page = task_page,
                                  !.pt[i].pc = "done",
                                  !.pt[i].task_id = current_task_id,
                                  !.pt[i].task_page = task_page,
                                  !.pt[i].result =
                                      TaskResult("error", {"type", "message"},
                                                 NoContent, NoInfo)]
                     /\ UNCHANGED messages
                ELSE /\ run' = [run EXCEPT
                                  !.tasks[i].page = task_page,
                                  !.pt[i].pc = "fetch",
                                  !.pt[i].task_id = current_task_id,
                                  !.pt[i].task_page = task_page]
                     /\ messages' = Append(messages, "Querying")
    /\ UNCHANGED <<task, task0, rs, taskVars, clockVars, cacheVars, toolVars, ident, calc>>

\* the rows a fetch that matches returns
RunRows == ProcessRecords(<<R1>>, ui_base)

\* the fetch of the workflow of task i returns or raises
ProcessFetch ==
    /\ run.pc = "gather"
    /\ \E i \in 1..Len(run.pt), outcome \in {"raise", "empty", "rows"} :
         /\ run.pt[i].pc = "fetch"
         /\ mcp_log' = mcp_log \o QueryLog(outcome # "raise")
         /\ IF outcome = "raise"
            THEN /\ run' = Raised(run, i)
                 /\ UNCHANGED <<data_cache, issued>>
            ELSE IF outcome = "empty"
            THEN /\ run' = [run EXCEPT !.pt[i].pc = "render"]
                 /\ UNCHANGED <<data_cache, issued>>
            ELSE /\ run' = [run EXCEPT
                              !.pt[i].pc = IF run.tasks[i].type \in {"sum", "chart"}
                                           THEN "agg" ELSE "render",
                              !.pt[i].count = Len(RunRows)]
                 /\ \E h \in NewHandleChoices : Caches(h, RunRows)
    /\ UNCHANGED <<resolveVars, taskVars, lookup, clockVars, toolRest, ident, calc>>

\* the aggregation of task i returns or raises; the chart workflow turns the
\* exception into its message
ProcessAggregate ==
    /\ run.pc = "gather"
    /\ \E i \in 1..Len(run.pt), ok \in BOOLEAN :
         /\ run.pt[i].pc = "agg"
         /\ run' = IF ok \/ run.tasks[i].type = "chart"
                   THEN [run EXCEPT !.pt[i].pc = "render"]
                   ELSE Raised(run, i)
         /\ mcp_log' = IF run.tasks[i].type = "sum"
                       THEN mcp_log \o <<"Calculate Total Amount (amount)",
                                         IF ok THEN "Calculation Complete"
                                         ELSE "Calculation Failed">>
                       ELSE mcp_log
    /\ UNCHANGED <<resolveVars, taskVars, clockVars, cacheVars, toolRest, ident, calc>>

\* the rendering of the result of task i returns or raises
ProcessRender ==
    /\ run.pc = "gather"
    /\ \E i \in 1..Len(run.pt), ok \in BOOLEAN :
         /\ run.pt[i].pc = "render"
         /\ IF ok
            THEN /\ run' = [run EXCEPT
                              !.order = Append(run.order, i),
                              !.pt[i].pc = "done",
                              !.pt[i].result =
                                  TaskResult("final_text",
                                             {"type", "content", "plot_data",
                                              "task_info"},
                                             <<"<!-- task_id -->",
                                               run.tasks[i].module,
                                               "formatted">>,
                                             [task_id |-> run.pt[i].task_id,
                                              module |-> run.tasks[i].module,
                                              page |-> run.pt[i].task_page])]
                 /\ messages' = Append(messages, "Generating full response")
            ELSE /\ run' = Raised(run, i)
                 /\ messages' = Append(messages, "Generating full response")
    /\ UNCHANGED <<task, task0, rs, taskVars, clockVars, cacheVars, toolVars, ident, calc>>

\* results as the tasks returned them, one after the other
GatherResults_AsCompleted(pt, order) ==
    [k \in 1..Len(order) |-> pt[order[k]].result]

\* what asyncio.gather returns: the results in the order of the coroutines
\* it was given, whatever the order they ended in
GatherResults(pt, order) == [i \in 1..Len(pt) |-> pt[i].result]

\* r.get("task_info") for r in results if r.get("task_info")
TaskInfos(results) ==
    LET infos == [i \in 1..Len(results) |-> results[i].task_info]
    IN  SelectSeq(infos, LAMBDA info : info # NoInfo)

\* the gather has every result: the response is put together
RunReturn ==
    /\ run.pc = "gather"
    /\ \A i \in 1..Len(run.pt) : run.pt[i].pc = "done"
    /\ LET results == GatherResults(run.pt, run.order) IN
       run' = [run EXCEPT
                 !.pc = "returned",
                 !.out = [normal |-> TRUE,
                          parts |-> [i \in 1..Len(results) |->
                                        results[i].content],
                          task_list |-> TaskInfos(results)],
                 !.prior = TaskInfos(results)]
    /\ UNCHANGED <<resolveVars, taskVars, clockVars, cacheVars, toolVars, ident, calc>>

InitRun ==
    /\ InitTools
    /\ InitAgentIdle

NextRun ==
    \/ RunCall
    \/ ProcessBegin
    \/ ProcessFetch
    \/ ProcessAggregate
    \/ ProcessRender
    \/ RunReturn

SpecRun == InitRun /\ [][NextRun]_vars

\* One request from the classifier's answer to the response
NextClassify ==
    \/ RunClassified
    \/ ProcessBegin
    \/ ProcessFetch
    \/ ProcessAggregate
    \/ ProcessRender
    \/ RunReturn

SpecClassify == InitRun /\ [][NextClassify]_vars

----------------------------------------------------------------------------
(* _generate_task_id as a function of its arguments                        *)

GtTen == JObj(<<F("operator", StrV(<<">">>)), F("value", NumV(10))>>)
GtTenSwapped == JObj(<<F("value", NumV(10)), F("operator", StrV(<<">">>))>>)
Between == JObj(<<F("operator", StrV(<<"between">>)), F("start", NumV(1)),
                  F("end", NumV(12))>>)
BetweenSwapped == JObj(<<F("end", NumV(12)), F("operator", StrV(<<"between">>)),
                         F("start", NumV(1))>>)
ListBA == ListC(<<StrV(StatusB), StrV(StatusA)>>)
ListAB == ListC(<<StrV(StatusA), StrV(StatusB)>>)

\* the filter dicts the identity is computed of
IdentityMaps ==
    {FiltersJson(f) : f \in TaskFilterMaps} \cup
    { JObj(<<F("status", StrV(StatusB)), F("amount", NumV(5))>>),
      JObj(<<F("amount", NumV(5)), F("status", StrV(StatusB))>>),
      JObj(<<F("amount", StrV(<<"5">>)), F("status", StrV(StatusB))>>),
      JObj(<<F("amount", GtTen)>>),
      JObj(<<F("amount", GtTenSwapped)>>),
      JObj(<<F("status", ListBA), F("amount", Between), F("name", NoneV)>>),
      JObj(<<F("name", NoneV), F("amount", BetweenSwapped), F("status", ListBA)>>),
      JObj(<<F("name", NoneV), F("amount", BetweenSwapped), F("status", ListAB)>>) }

IdentityModules == {"Accounts", "Leads"}

\* two calls of _generate_task_id on the same module
IdentityCall ==
    /\ ident.pc = "idle"
    /\ \E module \in IdentityModules, a \in IdentityMaps, b \in IdentityMaps :
         ident' = [ident EXCEPT !.pc = "called", !.module = module,
                                !.a = a, !.b = b,
                                !.id_a = TaskIdOfJson(module, a),
                                !.id_b = TaskIdOfJson(module, b)]
    /\ UNCHANGED <<clockVars, cacheVars, toolVars, resolveVars, taskVars, run, calc>>

\* the first dict goes through json.dumps and json.loads, and the identity of
\* what comes back is computed
IdentityRoundTrip ==
    /\ ident.pc = "called"
    /\ ident' = [ident EXCEPT
                   !.pc = "again",
                   !.id_again = TaskIdOfJson(ident.module,
                                             Loads(Dumps(ident.a, FALSE)))]
    /\ UNCHANGED <<clockVars, cacheVars, toolVars, resolveVars, taskVars, run, calc>>

InitIdentity ==
    /\ InitTools
    /\ InitAgentIdle

NextIdentity == IdentityCall \/ IdentityRoundTrip

SpecIdentity == InitIdentity /\ [][NextIdentity]_vars

----------------------------------------------------------------------------
(* calculate_total_amount                                                  *)
(* A number with decimals is held in hundredths.                           *)

\* re.sub(r"[^\d.-]", "", s)
CleanVal(s) == SelectSeq(s, LAMBDA c : c \in DigitChars \cup {".", "-"})

\* s without its leading sign
Unsigned(s) == IF s # <<>> /\ Head(s) = "-" THEN Tail(s) ELSE s

\* float(s) does not raise, for a text of digits, "." and "-": an optional
\* sign, then digits with at most one point among them
IsFloatText(s) ==
    LET u == Unsigned(s) IN
    /\ \E i \in 1..Len(u) : u[i] \in DigitChars
    /\ \A i \in 1..Len(u) : u[i] # "-"
    /\ Cardinality({i \in 1..Len(u) : u[i] = "."}) <= 1

RECURSIVE DigitsValue(_)
\* the number a text of digits writes
DigitsValue(ds) ==
    IF ds = <<>> THEN 0
    ELSE DigitsValue(SubSeq(ds, 1, Len(ds) - 1)) * 10 + DigitValue(ds[Len(ds)])

\* float(s) in hundredths, for a text with at most two decimals
FloatOf(s) ==
    LET u == Unsigned(s)
        dot == IF \E i \in 1..Len(u) : u[i] = "."
               THEN CHOOSE i \in 1..Len(u) : u[i] = "." ELSE Len(u) + 1
        whole == SubSeq(u, 1, dot - 1)
        frac == SubSeq(u \o <<"0", "0">>, dot + 1, dot + 2)
        hundredths == DigitsValue(whole) * 100 +
                      (IF dot > Len(u) THEN 0 ELSE DigitsValue(frac))
    IN  IF u # s THEN 0 - hundredths ELSE hundredths

\* not val
Falsy(val) ==
    CASE val.t = "str" -> val.s = <<>>
      [] val.t = "num" -> val.n = 0
      [] OTHER -> TRUE

\* the record is counted without amount
NoAmount == [with |-> FALSE, amount |-> 0]

\* the body of the loop for one value of record.get("amount"): the amount
\* added to the total, or no amount
AmountOf(val) ==
    IF Falsy(val) \/ Strip(PyStr(val)) \in {<<>>, <<"N", "o", "n", "e">>,
                                             <<"n", "u", "l", "l">>}
    THEN NoAmount
    ELSE LET clean_val == CleanVal(PyStr(val)) IN
         IF clean_val = <<>> THEN NoAmount
         ELSE IF ~IsFloatText(clean_val) THEN NoAmount
         ELSE IF FloatOf(clean_val) = 0 THEN NoAmount
         ELSE [with |-> TRUE, amount |-> FloatOf(clean_val)]

\* a record that carries an amount, and one that carries none
Rec(val) == [amount |-> val]
RecWithout == [id |-> StrV(<<"1">>)]

\* record.get("amount")
GetAmount(record) ==
    IF "amount" \in DOMAIN record THEN record.amount ELSE NoneV

AmountValues ==
    {NoneV, NumV(0), NumV(7), StrV(<<>>), StrV(<<"1", "0", "0">>),
     StrV(<<"a", "b", "c">>), StrV(<<"5", "0", ".", "5", "0">>),
     StrV(<<"a", "1">>), StrV(<<"0">>), StrV(<<"1", ".", "2", ".", "3">>),
     StrV(<<"-", "5">>), StrV(<<"n", "u", "l", "l">>)}

MaxAmountRecords == 2

AmountExample ==
    <<Rec(StrV(<<"1", "0", "0">>)), Rec(StrV(<<"a", "b", "c">>)), Rec(NoneV),
      Rec(StrV(<<"5", "0", ".", "5", "0">>))>>

\* the record lists the function is called with
AmountRecordLists ==
    LET recs == {Rec(v) : v \in AmountValues} \cup {RecWithout}
    IN  UNION {[1..n -> recs] : n \in 0..MaxAmountRecords} \cup {AmountExample}

\* the call: the records are taken from the argument; no record is an error
AmountCall ==
    /\ calc.pc = "start"
    /\ calc' = IF calc.records = <<>>
               THEN [calc EXCEPT !.pc = "raised"]
               ELSE [calc EXCEPT !.pc = "loop", !.i = 1]
    /\ mcp_log' = <<"Calculate Total Amount (amount)">> \o
                  (IF calc.records = <<>> THEN <<"Calculation Failed">> ELSE <<>>)
    /\ UNCHANGED <<clockVars, cacheVars, authVars, envVars, fetchLocals,
                   resolveVars, taskVars, run, ident>>

\* one iteration of the loop over the records
AmountRecord ==
    /\ calc.pc = "loop"
    /\ calc.i <= Len(calc.records)
    /\ LET a == AmountOf(GetAmount(calc.records[calc.i])) IN
       calc' = [calc EXCEPT
                  !.i = calc.i + 1,
                  !.total_amount = calc.total_amount + a.amount,
                  !.records_with_amount =
                      calc.records_with_amount + (IF a.with THEN 1 ELSE 0),
                  !.records_without_amount =
                      calc.records_without_amount + (IF a.with THEN 0 ELSE 1)]
    /\ UNCHANGED <<clockVars, cacheVars, toolVars, resolveVars, taskVars, run,
                   ident>>

\* the loop is over: the result is built and returned
AmountReturn ==
    /\ calc.pc = "loop"
    /\ calc.i > Len(calc.records)
    /\ calc' = [calc EXCEPT !.pc = "done",
                            !.records_processed = Len(calc.records)]
    /\ mcp_log' = Append(mcp_log, "Calculation Complete")
    /\ UNCHANGED <<clockVars, cacheVars, authVars, envVars, fetchLocals,
                   resolveVars, taskVars, run, ident>>

InitAmount ==
    /\ InitTools
    /\ task = NewTask("sum", <<>>, 0)
    /\ task0 = task
    /\ rs = IdleRs
    /\ messages = <<>>
    /\ wf = IdleWf
    /\ fan = IdleFan
    /\ run = IdleRun
    /\ ident = IdleIdent
    /\ \E records \in AmountRecordLists :
         calc = [pc |-> "start", records |-> records, i |-> 0,
                 total_amount |-> 0, records_with_amount |-> 0,
                 records_without_amount |-> 0, records_processed |-> 0]

NextAmount == AmountCall \/ AmountRecord \/ AmountReturn

SpecAmount == InitAmount /\ [][NextAmount]_vars

----------------------------------------------------------------------------
(* _plot_crm_data: the data frame the chart is drawn from                  *)
(* The x column is "status", the y column "amount" when there is one.      *)

NanText == <<"n", "a", "n">>

\* df[x_col].astype(str).replace(r"\[(.*?)\]\(.*?\)", r"\1", regex=True) for
\* one row: the text of the value, the text of a link for a link, "nan"
\* for a row without the column
CleanCell(rec, col) ==
    IF col \notin DOMAIN rec THEN NanText
    ELSE IF rec[col].t = "link" THEN rec[col].s
    ELSE PyStr(rec[col])

\* df.columns
AvailableCols(data_list) == UNION {DOMAIN data_list[i] : i \in 1..Len(data_list)}

\* the rows left by df[x_col].notna() and .str.strip() != ""
PlotRows(data_list, x_col) ==
    SelectSeq(data_list, LAMBDA rec : Strip(CleanCell(rec, x_col)) # <<>>)

\* the order of the group keys: groupby sorts them
PlotKeyOrder ==
    <<<<"A">>, <<"B">>, <<"C">>, <<"N", "o", "n", "e">>, NanText>>

\* the keys of the groups, sorted
GroupKeys(rows, x_col) ==
    SelectSeq(PlotKeyOrder,
              LAMBDA k : \E i \in 1..Len(rows) : CleanCell(rows[i], x_col) = k)

\* pd.to_numeric(str(v) without the characters that are no digit, point or
\* minus, errors="coerce").fillna(0), in hundredths
YValue(rec, y_col) ==
    LET clean == CleanVal(CleanCell(rec, y_col)) IN
    IF IsFloatText(clean) THEN FloatOf(clean) ELSE 0

RECURSIVE GroupSum(_, _, _, _)
\* [y_col].sum() of the group of key k
GroupSum(rows, x_col, y_col, k) ==
    IF rows = <<>> THEN 0
    ELSE (IF CleanCell(Head(rows), x_col) = k THEN YValue(Head(rows), y_col)
          ELSE 0) + GroupSum(Tail(rows), x_col, y_col, k)

\* .size() of the group of key k
GroupSize(rows, x_col, k) ==
    Cardinality({i \in 1..Len(rows) : CleanCell(rows[i], x_col) = k})

\* the column the chart has no use of
NoCol == "None"

\* the aggregate is the count of the group: no y column is given, or the
\* data has no such column
ByCount(data_list, y_col) == y_col = NoCol \/ y_col \notin AvailableCols(data_list)

\* df.groupby(x_col).size() or df.groupby(x_col)[y_col].sum(): one row per
\* key, in the order of the keys
Grouped(data_list, x_col, y_col) ==
    LET rows == PlotRows(data_list, x_col)
        keys == GroupKeys(rows, x_col)
    IN  [i \in 1..Len(keys) |->
            [key |-> keys[i],
             value |-> IF ByCount(data_list, y_col)
                       THEN GroupSize(rows, x_col, keys[i])
                       ELSE GroupSum(rows, x_col, y_col, keys[i])]]

RECURSIVE InsertDescending(_, _)
\* g put after the rows whose value is at least its own
InsertDescending(g, sorted) ==
    IF sorted = <<>> THEN <<g>>
    ELSE IF Head(sorted).value >= g.value
    THEN <<Head(sorted)>> \o InsertDescending(g, Tail(sorted))
    ELSE <<g>> \o sorted

RECURSIVE SortDescending(_)
\* df.sort_values(by=..., ascending=False) of a frame of at most 16 rows:
\* rows of equal value keep their order
SortDescending(frame) ==
    IF frame = <<>> THEN <<>>
    ELSE InsertDescending(frame[Len(frame)],
                          SortDescending(SubSeq(frame, 1, Len(frame) - 1)))

\* a frame left in the order of its keys
SortValues_Unsorted(frame) == frame

\* df = df.sort_values(by=y_col, ascending=False)
SortValues(frame) == SortDescending(frame)

PlotA == [id |-> 1, status |-> StrV(<<"A">>)]
PlotB == [id |-> 2, status |-> StrV(<<"B">>)]
PlotC == [id |-> 3, status |-> StrV(<<"C">>)]

\* the rows a chart is asked of
PlotRecords ==
    {PlotA, PlotB, PlotC,
     [id |-> 4, status |-> StrV(<<"A">>), amount |-> StrV(<<"1", "0", "0">>)],
     [id |-> 5, status |-> StrV(<<"B">>),
      amount |-> StrV(<<"5", "0", ".", "5", "0">>)],
     [id |-> 6, status |-> LinkV(<<"A">>, 6), amount |-> NumV(7)],
     [id |-> 7, status |-> StrV(<<" ">>), amount |-> StrV(<<"1", "0", "0">>)],
     [id |-> 8, status |-> NoneV],
     [id |-> 9, amount |-> StrV(<<"1", "0", "0">>)],
     [id |-> 10, status |-> StrV(<<"C">>), amount |-> StrV(<<"a", "b", "c">>)]}

MaxPlotRecords == 2

PlotExample == <<PlotA, PlotA, PlotB, PlotC>>

PlotDataLists ==
    UNION {[1..n -> PlotRecords] : n \in 1..MaxPlotRecords} \cup {PlotExample}

\* the y column asked: none, one the rows can carry, one no row carries
PlotYCols == {NoCol, "amount", "revenue"}

\* _plot_crm_data up to the grouping: the columns are cleaned, the rows
\* without x value dropped; no x column or no row left is an error
PlotCall ==
    /\ calc.pc = "start"
    /\ calc' = IF calc.x_col \notin AvailableCols(calc.data_list)
                  \/ PlotRows(calc.data_list, calc.x_col) = <<>>
               THEN [calc EXCEPT !.pc = "raised"]
               ELSE [calc EXCEPT !.pc = "cleaned"]
    /\ UNCHANGED <<clockVars, cacheVars, toolVars, resolveVars, taskVars, run,
                   ident>>

\* the grouping and its aggregate
PlotGroup ==
    /\ calc.pc = "cleaned"
    /\ calc' = [calc EXCEPT
                  !.pc = "grouped",
                  !.df = Grouped(calc.data_list, calc.x_col, calc.y_col),
                  !.y_used = IF ByCount(calc.data_list, calc.y_col)
                             THEN "Count" ELSE calc.y_col]
    /\ UNCHANGED <<clockVars, cacheVars, toolVars, resolveVars, taskVars, run,
                   ident>>

\* the sort; the frame is the one the figure is made of
PlotSort ==
    /\ calc.pc = "grouped"
    /\ calc' = [calc EXCEPT !.pc = "done", !.df = SortValues(calc.df)]
    /\ UNCHANGED <<clockVars, cacheVars, toolVars, resolveVars, taskVars, run,
                   ident>>

InitPlot ==
    /\ InitTools
    /\ task = NewTask("chart", <<>>, 0)
    /\ task0 = task
    /\ rs = IdleRs
    /\ messages = <<>>
    /\ wf = IdleWf
    /\ fan = IdleFan
    /\ run = IdleRun
    /\ ident = IdleIdent
    /\ \E data_list \in PlotDataLists, y_col \in PlotYCols :
         calc = [pc |-> "start", data_list |-> data_list, x_col |-> "status",
                 y_col |-> y_col, y_used |-> NoCol, df |-> <<>>]

NextPlot == PlotCall \/ PlotGroup \/ PlotSort

SpecPlot == InitPlot /\ [][NextPlot]_vars

----------------------------------------------------------------------------
(* Specification of the result cache alone                                 *)

InitCacheSpec ==
    /\ InitClock
    /\ InitCache
    /\ ctx_token = NoToken
    /\ session = [access_token |-> NoToken, expires_at |-> 0]
    /\ ui_base = FALSE
    /\ upstream_depth = 0
    /\ upstream_extra = 0
    /\ args = [filters |-> <<>>, max_records |-> 0, iterate |-> FALSE,
               page_number |-> 1]
    /\ mcp_log = <<>>
    /\ q = IdleQ
    /\ auth_ret = NoAuthRet
    /\ walk = IdleWalk
    /\ InitAgentIdle

NextCache == Tick \/ CacheInsert \/ CacheLookup \/ ClearCrmCache

SpecCache == InitCacheSpec /\ [][NextCache]_vars

----------------------------------------------------------------------------
(* Claims on the result cache                                              *)

\* C4 as stated: a handle returned by _cache_data at time T yields the
\* inserted records at every t < T + CACHE_TTL and not-found at every
\* t >= T + CACHE_TTL; a handle never returned yields not-found.
C4_AsStated ==
    lookup.h # None =>
        IF lookup.h \in DOMAIN issued
        THEN LET i == issued[lookup.h] IN
             /\ lookup.t < i.t + CACHE_TTL => lookup.res = Found(i.data)
             /\ lookup.t >= i.t + CACHE_TTL => lookup.res = NotFound
        ELSE lookup.res = NotFound

\* C4 amended: a lookup of handle h at time t returns the records of the
\* most recent _cache_data call that returned h if clear_crm_cache has not
\* run since that call and t < (time of that call) + CACHE_TTL; in every
\* other case (expired, cleared, never returned) it returns not-found.
C4_Retrievable ==
    lookup.h # None =>
        IF lookup.h \in DOMAIN issued /\ issued[lookup.h].live
        THEN LET i == issued[lookup.h] IN
             /\ lookup.t < i.t + CACHE_TTL => lookup.res = Found(i.data)
             /\ lookup.t >= i.t + CACHE_TTL => lookup.res = NotFound
        ELSE lookup.res = NotFound

\* C4 witness: an entry stored after time 0 and not cleared since, looked up
\* exactly at its expiry instant
C4_Witness ==
    /\ lookup.h \in DOMAIN issued
    /\ issued[lookup.h].live
    /\ issued[lookup.h].t > 0
    /\ lookup.t = issued[lookup.h].t + CACHE_TTL
    /\ lookup.res = NotFound

----------------------------------------------------------------------------
(* Claims on the record fetcher                                            *)

\* the matching rule of the specification for one filter: substring for a
\* string, membership for a list, numeric comparison for an operator object
\* (a filter on a field the row does not carry is not held against the row)
RuleMatch(rec, key, crit) ==
    IF key \notin DOMAIN rec THEN TRUE
    ELSE LET val == rec[key] IN
         CASE crit.t = "list" -> InLowered(val, crit.items)
           [] IsDictWithListValue(crit) -> InLowered(val, crit.value.items)
           [] crit.t = "str" -> Contains(Lower(PyStr(crit)), Lower(PyStr(val)))
           [] crit.t = "num" -> val.t = "num" /\ val.n = crit.n
           [] crit.t = "dict" /\ "value" \in crit.keys ->
                /\ val.t = "num"
                /\ CASE crit.operator \in {"eq", "=", "equals"} -> val.n = crit.value.n
                     [] crit.operator \in {"not_equal", "neq"} -> val.n # crit.value.n
                     [] crit.operator = ">" -> val.n > crit.value.n
                     [] crit.operator = "<" -> val.n < crit.value.n
                     [] crit.operator = ">=" -> val.n >= crit.value.n
                     [] crit.operator = "<=" -> val.n <= crit.value.n
                     [] OTHER -> TRUE
           [] crit.t = "dict" /\ crit.operator = "between" ->
                val.t = "num" /\ crit.start <= val.n /\ val.n <= crit.end
           [] OTHER -> TRUE

\* C3 as stated: every record query_crm_data returns satisfies every filter
\* of the filter-map under the matching rule (substring for strings,
\* membership for lists, numeric comparison for operator objects), whatever
\* the upstream returned.
C3_AsStated ==
    q.pc = "done" =>
        \A i \in 1..Len(q.result.records), j \in 1..Len(args.filters) :
            RuleMatch(q.result.records[i], args.filters[j].key,
                      args.filters[j].crit)

\* C6 as stated: once the upstream has rejected (401) a token that came from
\* the session cache, the next resolve_auth_token call does not return that
\* token from the cache.
C6_AsStated ==
    (/\ q.pc = "raised"
     /\ q.rejected
     /\ q.token = SessionToken
     /\ auth_ret.called)
    => ~(auth_ret.ok /\ auth_ret.token = q.token)

\* C7: when a page request fails, query_crm_data ends in an error: no result
\* is returned (no row of a page fetched before either) and no cache entry
\* has been written.
C7_FailureAborts ==
    q.pc = "raised" =>
        /\ q.err # ""
        /\ q.result = NoResult
        /\ ~q.cached
        /\ data_cache = EmptyCache

\* C7 witness: the second page request fails after the first page arrived
C7_Witness ==
    /\ q.pc = "raised"
    /\ Len(q.reqs) = 2
    /\ Len(q.all_records) = PAGE_SIZE
    /\ q.err = "HTTPError"

\* C10: with iterate_pages the pages requested are 1, 2, 3, ... in sequence;
\* the walk goes on only while the budget is not reached, the last page was
\* full and fewer than 500 requests were made, and it ends only for one of
\* these reasons (or an error); at most 500 requests are ever made; without
\* iterate_pages exactly one request is made, for the page asked.
C10_PageWalk ==
    /\ Len(walk.reqs) <= PAGE_CAP
    /\ args.iterate => walk.reqs = [i \in 1..Len(walk.reqs) |-> i]
    /\ (walk.pc = "loop" /\ walk.reqs # <<>>) =>
          /\ args.iterate
          /\ walk.rows < walk.limit
          /\ walk.last >= walk.page_size
          /\ Len(walk.reqs) < PAGE_CAP
    /\ (walk.pc = "done" /\ args.iterate) =>
          \/ walk.last = 0
          \/ walk.rows >= walk.limit
          \/ walk.last < walk.page_size
          \/ Len(walk.reqs) = PAGE_CAP
    /\ (walk.pc \in {"done", "raised"} /\ ~args.iterate) =>
          walk.reqs = <<args.page_number>>

\* C10 witness: every page was full and the walk ended at the page cap
C10_Witness ==
    /\ walk.pc = "done"
    /\ args.iterate
    /\ walk.last = PAGE_SIZE + 1
    /\ walk.rows = PAGE_CAP * (PAGE_SIZE + 1)
    /\ Len(walk.reqs) = PAGE_CAP

----------------------------------------------------------------------------
(* Claims on the filter resolver                                           *)

\* the filter on key k has been replaced by an identifier under the target
\* id field
Replaced(k) ==
    /\ ~Has(task.filters, k)
    /\ Has(task.filters, TargetApiKey(k))
    /\ IsIdShaped(PyStr(Get(task.filters, TargetApiKey(k))))

\* the filter on key k, whose text is s, is the two-term search on s and on
\* its first token
Degraded(k, s) ==
    /\ Has(task.filters, k)
    /\ Get(task.filters, k) = ListC(<<StrV(s), StrV(FirstPart(s))>>)

\* C9 as stated: once _resolve_smart_filters has returned, every filter the
\* task carried on an identity-resolvable field is either replaced by an
\* identifier under the target id field or the task's fallback flag is set.
C9_AsStated ==
    rs.pc = "done" =>
        \A i \in 1..Len(task0.filters) :
            task0.filters[i].key \in ResolvableFields =>
                Replaced(task0.filters[i].key) \/ task.merge_fallback

\* C9: once _resolve_smart_filters has returned, a list-valued filter on an
\* identity-resolvable field is still there with its value; a scalar one is
\* replaced by an identifier under the target id field, or, when its text
\* holds a space, is the list of the text and its first token with the
\* fallback flag set, or, when its text holds no space, is the value it was,
\* under its own key; and the flag is set only when some filter is such a list.
C9_Resolved ==
    rs.pc = "done" =>
        /\ \A i \in 1..Len(task0.filters) :
              LET k == task0.filters[i].key
                  v == task0.filters[i].crit
              IN  k \in ResolvableFields =>
                    IF IsMulti(v)
                    THEN Has(task.filters, k) /\ Get(task.filters, k) = v
                    ELSE \/ Replaced(k)
                         \/ /\ HasSpace(Strip(PyStr(v)))
                            /\ Degraded(k, Strip(PyStr(v)))
                            /\ task.merge_fallback
                         \/ /\ ~HasSpace(Strip(PyStr(v)))
                            /\ Has(task.filters, k)
                            /\ Get(task.filters, k) = v
        /\ task.merge_fallback =>
              \E i \in 1..Len(task0.filters) :
                  /\ task0.filters[i].key \in ResolvableFields
                  /\ ~IsMulti(task0.filters[i].crit)
                  /\ Degraded(task0.filters[i].key,
                              Strip(PyStr(task0.filters[i].crit)))

\* the resolver has returned with one name left as it was and another
\* degraded to the two-term search
C9_Witness ==
    /\ rs.pc = "done"
    /\ task.merge_fallback
    /\ Has(task.filters, "assigned_user")
    /\ Get(task.filters, "assigned_user") = StrV(NameSingle)
    /\ Degraded("assigned_to", NameMulti)

----------------------------------------------------------------------------
(* Claims on the fan-out executor and the workflows                        *)

\* the filter-map holds a list (or a dict whose "value" is a list) in exactly
\* one field
ExactlyOneList(filters) ==
    Cardinality({i \in 1..Len(filters) : IsMulti(filters[i].crit)}) = 1

NoTwoWithSameId(records) ==
    \A i, j \in 1..Len(records) : records[i].id = records[j].id => i = j

\* C1: when exactly one field of the filter-map holds a list of N values, the
\* fan-out executor makes N query_crm_data calls, the i-th on the filter-map
\* with that field set to the i-th value, and the merged records it returns
\* hold no id twice.
C1_FanOut ==
    (/\ task.type # "list"
     /\ wf.pc \notin {"idle", "start"}
     /\ ExactlyOneList(task.filters)) =>
        LET mi == MultiIndex(task.filters)
            key == task.filters[mi].key
            values == MultiValues(task.filters[mi].crit)
        IN  /\ Len(wf.calls) = Len(values)
            /\ \A i \in 1..Len(values) :
                 wf.calls[i].filters = SetKey(task.filters, key, values[i])
            /\ wf.pc \in {"fetched", "agg", "done"} =>
                 /\ NoTwoWithSameId(wf.fetched.records)
                 /\ wf.fetched.count = Len(wf.fetched.records)

\* the executor has merged two sub-results that share a record
C1_Witness ==
    /\ task.type = "sum"
    /\ wf.pc = "fetched"
    /\ ExactlyOneList(task.filters)
    /\ Len(fan.res) = 2
    /\ \E i \in 1..Len(fan.res[1].records), j \in 1..Len(fan.res[2].records) :
         fan.res[1].records[i].id = fan.res[2].records[j].id
    /\ Len(wf.fetched.records) > 1

\* the fetch of the task matched no record
ZeroMatched ==
    IF wf.env.type = "multi_list"
    THEN \A i \in 1..Len(wf.env.sub_results) : wf.env.sub_results[i].count = 0
    ELSE wf.fetched.count = 0

\* C5 as stated: a workflow whose fetch matched no record returns a result
\* with count = 0, has called neither calculate_total_amount nor
\* create_chart_from_crm_data, and has left the cache without any entry.
C5_AsStated ==
    (wf.pc = "done" /\ ZeroMatched) =>
        /\ "count" \in wf.env.keys
        /\ wf.env.count = 0
        /\ wf.aggs = <<>>
        /\ DOMAIN data_cache = {}

----------------------------------------------------------------------------
(* Claims on _process_task and run_async                                   *)

\* task i has got its identity and its page
Paged(i) == run.pc = "gather" /\ run.pt[i].task_id # NoTaskId

\* C2 as stated: when the request carries an identity, a task whose identity
\* equals it runs at the page the response before listed for that identity,
\* plus one; a task whose identity differs from it runs at page 1.
C2_AsStated ==
    \A i \in 1..Len(run.pt) :
        (Paged(i) /\ run.target # NoTaskId) =>
            IF run.pt[i].task_id = run.target
            THEN \A k \in 1..Len(run.prior) :
                     run.prior[k].task_id = run.target =>
                         run.pt[i].task_page = run.prior[k].page + 1
            ELSE run.pt[i].task_page = 1

\* C2: when the request carries an identity, a task whose identity equals it
\* runs at the page number the request carries, whatever page the response
\* before listed; a task whose identity differs from it runs at page 1.
C2_Continuation ==
    \A i \in 1..Len(run.pt) :
        (Paged(i) /\ run.target # NoTaskId) =>
            /\ run.pt[i].task_page =
                   (IF run.pt[i].task_id = run.target THEN run.page ELSE 1)
            /\ run.tasks[i].page = run.pt[i].task_page

\* a follow-up request carries the identity of the first of its two tasks and
\* page 2: that task has its page, the other one too
C2_Witness ==
    /\ run.n = 2
    /\ Len(run.pt) = 2
    /\ Paged(1)
    /\ Paged(2)
    /\ run.page = 2
    /\ \E k \in 1..Len(run.prior) : run.prior[k].task_id = run.target
    /\ run.pt[1].task_id = run.target
    /\ run.pt[2].task_id # run.target

\* C8: when run_async has returned from a request with tasks, it has returned
\* its response and not its own error; every task has ended; a task in which
\* an exception was raised has the error result, every other task the result
\* it made; and the response holds one entry per task, the i-th being the
\* content of the result of the i-th task.
C8_Isolation ==
    (run.pc = "returned" /\ run.tasks # <<>>) =>
        /\ run.out.normal
        /\ Len(run.out.parts) = Len(run.tasks)
        /\ \A i \in 1..Len(run.pt) :
             /\ run.pt[i].pc = "done"
             /\ run.pt[i].result.type =
                    (IF run.pt[i].raised \/ run.tasks[i].type \notin TaskTypes
                     THEN "error" ELSE "final_text")
             /\ run.out.parts[i] = run.pt[i].result.content
             /\ ~run.pt[i].raised =>
                    (run.tasks[i].type \in TaskTypes =>
                         run.pt[i].result.task_info.task_id = run.pt[i].task_id)

\* a request of two tasks has returned: an exception was raised in the first,
\* the second has made its result
C8_Witness ==
    /\ run.pc = "returned"
    /\ Len(run.pt) = 2
    /\ run.pt[1].raised
    /\ run.pt[1].result.type = "error"
    /\ ~run.pt[2].raised
    /\ run.pt[2].result.type = "final_text"
    /\ run.out.parts = <<<<"Task failed: ", "e">>,
                         <<"<!-- task_id -->", "Leads", "formatted">>>>

\* the first sub-result that holds a record with this id, and the record's
\* place in it
FirstValue(id) ==
    CHOOSE i \in 1..Len(fan.res) :
        /\ \E p \in 1..Len(fan.res[i].records) : fan.res[i].records[p].id = id
        /\ \A j \in 1..(i - 1) :
             \A p \in 1..Len(fan.res[j].records) : fan.res[j].records[p].id # id

PlaceIn(i, id) ==
    CHOOSE p \in 1..Len(fan.res[i].records) :
        /\ fan.res[i].records[p].id = id
        /\ \A o \in 1..(p - 1) : fan.res[i].records[o].id # id

\* C11: whatever the order in which the sub-fetches returned, the merged
\* records are those of the sub-results, each id once; a record stands before
\* another when the first value that returned it comes earlier in the value
\* list, or is the same value and the record stands earlier in that
\* sub-result.
C11_MergeOrder ==
    (wf.pc = "fetched" /\ fan.values # <<>>) =>
        LET merged == wf.fetched.records IN
        /\ NoTwoWithSameId(merged)
        /\ \A i \in 1..Len(fan.res) : \A p \in 1..Len(fan.res[i].records) :
             \E m \in 1..Len(merged) : merged[m].id = fan.res[i].records[p].id
        /\ \A m \in 1..Len(merged) :
             merged[m] = fan.res[FirstValue(merged[m].id)].records[
                             PlaceIn(FirstValue(merged[m].id), merged[m].id)]
        /\ \A m, n \in 1..Len(merged) :
             m < n =>
               LET a == FirstValue(merged[m].id)
                   b == FirstValue(merged[n].id)
               IN  \/ a < b
                   \/ a = b /\ PlaceIn(a, merged[m].id) < PlaceIn(b, merged[n].id)

\* the second sub-fetch returned before the first; the first returned three
\* records, the second two of them
C11_Witness ==
    /\ wf.pc = "fetched"
    /\ fan.order = <<2, 1>>
    /\ Len(fan.res[1].records) = 3
    /\ Len(fan.res[2].records) = 2
    /\ fan.res[1].records[1].id = fan.res[2].records[1].id
    /\ fan.res[1].records[3].id = fan.res[2].records[2].id
    /\ Len(wf.fetched.records) = 3

\* the tasks that made a final result, and how many of them stand before
\* task i or are task i
Final(i) == run.pt[i].result.type = "final_text"

FinalUpTo(i) == Cardinality({j \in 1..i : Final(j)})

\* C12: when run_async has returned from a request with tasks, the i-th piece
\* of the final text is the content of the i-th task the classifier returned,
\* and task_list holds the task_info of the tasks that made a final result,
\* in the order of the tasks, whatever the order in which the tasks ended.
C12_ClassifierOrder ==
    (run.pc = "returned" /\ run.tasks # <<>>) =>
        /\ Len(run.out.parts) = Len(run.tasks)
        /\ \A i \in 1..Len(run.tasks) :
             /\ run.out.parts[i] = run.pt[i].result.content
             /\ Final(i) => run.out.parts[i][2] = run.tasks[i].module
        /\ Len(run.out.task_list) = FinalUpTo(Len(run.tasks))
        /\ \A i \in 1..Len(run.tasks) :
             Final(i) =>
                 /\ run.out.task_list[FinalUpTo(i)].module = run.tasks[i].module
                 /\ run.out.task_list[FinalUpTo(i)].task_id = run.pt[i].task_id

\* the second of two tasks ended before the first, both with a final result
C12_Witness ==
    /\ run.pc = "returned"
    /\ run.order = <<2, 1>>
    /\ Final(1)
    /\ Final(2)
    /\ run.tasks[1].module # run.tasks[2].module
    /\ Len(run.out.task_list) = 2

----------------------------------------------------------------------------
(* Claims on the task identity                                             *)

RECURSIVE Content(_)
\* a JSON value without the order of the entries of its objects
Content(j) ==
    CASE j.t = "list" ->
           [t |-> "list", items |-> [i \in 1..Len(j.items) |-> Content(j.items[i])]]
      [] j.t = "obj" ->
           [t |-> "obj",
            entries |-> {[key |-> j.entries[i].key,
                          crit |-> Content(j.entries[i].crit)] :
                            i \in 1..Len(j.entries)}]
      [] OTHER -> j

\* C13: two filter dicts that hold the same keys with the same values at
\* every level, whatever the order of their keys, have the same identity for
\* the same module, and so has a filter dict after json.dumps and json.loads.
C13_Identity ==
    /\ (ident.pc # "idle" /\ Content(ident.a) = Content(ident.b)) =>
           ident.id_a = ident.id_b
    /\ ident.pc = "again" =>
           /\ ident.id_again = ident.id_a
           /\ Content(Loads(Dumps(ident.a, FALSE))) = Content(ident.a)

\* two dicts with the same content, whose keys were inserted in another
\* order at the top and inside the operator object, and the round trip done
C13_Witness ==
    /\ ident.pc = "again"
    /\ ident.a # ident.b
    /\ Content(ident.a) = Content(ident.b)
    /\ \E i \in 1..Len(ident.a.entries) :
         /\ ident.a.entries[i].key = "amount"
         /\ ident.a.entries[i].crit = Between
    /\ ident.a.entries[1].key # ident.b.entries[1].key
    /\ ident.id_a = ident.id_b

----------------------------------------------------------------------------
(* Claims on the failure of a task                                         *)

\* C14: when run_async has returned from a request with tasks, the entry of
\* the final text of every task that failed (an exception was raised in it,
\* or its type is none of the workflows) is a message that is not empty.
C14_AsStated ==
    (run.pc = "returned" /\ run.tasks # <<>>) =>
        \A i \in 1..Len(run.tasks) :
            run.pt[i].result.type = "error" => run.out.parts[i] # NoContent

----------------------------------------------------------------------------
(* Claims on the result of a workflow                                      *)

\* the fields every result is said to carry
UniformFields == {"type", "module", "count", "records"}

----------------------------------------------------------------------------
(* Claims on the total of the list workflow                                *)

\* the list workflow on a filter-map without a list, its first fetch returned
DirectList ==
    /\ task.type = "list"
    /\ MultiIndex(task.filters) = 0
    /\ wf.pc \in {"verify", "done"}

C17_CountFailure ==
    wf.verify = "raised" =>
        /\ wf.pc \in {"done", "merged", "failed"}
        /\ wf.env.type = "list"
        /\ UniformFields \cup {"total_count"} \subseteq wf.env.keys
        /\ wf.env.records = wf.fetched.records
        /\ wf.env.count = wf.fetched.count
        /\ wf.env.total_count = wf.fetched.count

\* the count query was issued after a full first page and raised
C17_Witness ==
    /\ wf.verify = "raised"
    /\ wf.pc = "done"
    /\ Len(wf.calls) = 2
    /\ wf.fetched.count = 20
    /\ wf.env.total_count = 20

----------------------------------------------------------------------------
(* Claims on the failure of the identity lookups                           *)

\* every lookup done so far raised or returned no record
NoLookupMatched ==
    \A i \in 1..Len(rs.outcomes) : rs.outcomes[i] \in {"raise", "none"}

\* C18: no exception of a lookup leaves _resolve_smart_filters; and when the
\* resolver has returned after every lookup raised or returned no record,
\* every scalar filter on an identity-resolvable field whose text is not an
\* identifier is still under its own key and not under the id field: as the
\* list of its text and the first token of its text when the text holds a
\* space, as the value it was otherwise.
C18_NeverFatal ==
    /\ rs.pc # "raised"
    /\ (rs.pc = "done" /\ NoLookupMatched) =>
           \A i \in 1..Len(task0.filters) :
               LET k == task0.filters[i].key
                   v == task0.filters[i].crit
               IN  (k \in ResolvableFields /\ ~IsMulti(v) /\ ~IsIdShaped(PyStr(v))) =>
                       /\ Has(task.filters, k)
                       /\ ~Has(task.filters, TargetApiKey(k))
                       /\ IF HasSpace(Strip(PyStr(v)))
                          THEN Degraded(k, Strip(PyStr(v)))
                          ELSE Get(task.filters, k) = v

\* the resolver has returned after five lookups for a name of two words, the
\* four by field and the one by first and last name, each of which raised
C18_Witness ==
    /\ rs.pc = "done"
    /\ rs.outcomes = <<"raise", "raise", "raise", "raise", "raise">>
    /\ Degraded("assigned_user_name", NameMulti)

----------------------------------------------------------------------------
(* Claims on the life of a cache entry                                     *)

\* C19 as stated: no step puts other records or another expiry under a
\* handle that the cache holds and that has not expired; an entry stays as
\* it was inserted for as long as it is held.
C19_AsStated ==
    [][\A h \in DOMAIN data_cache :
           (now < data_cache[h].expires_at /\ h \in DOMAIN data_cache') =>
               data_cache'[h] = data_cache[h]]_vars

\* C20 as stated: once a handle has been looked up at or after the expiry of
\* its entry, the cache no longer holds an entry under it.
C20_AsStated ==
    (lookup.h # None /\ lookup.h \in DOMAIN issued /\ issued[lookup.h].live
       /\ lookup.t >= issued[lookup.h].t + CACHE_TTL) =>
        lookup.h \notin DOMAIN data_cache

----------------------------------------------------------------------------
(* Claims on the credentials of a fetch                                    *)

\* the request carries a token that is long enough once stripped, or the
\* session holds a token that has not expired
Authenticated ==
    \/ ctx_token.stripped > 10
    \/ session.access_token # NoToken /\ now < session.expires_at

\* C21: once query_crm_data has called resolve_auth_token, the call goes on
\* with a token exactly when the request carries a token of more than 10
\* characters after strip() or the session holds a token with now <
\* expires_at; the token is then the request's, or else the session's. A
\* request token of at most 10 characters with no such session token always
\* fails: the call has then raised the not-logged-in error, has sent no
\* request upstream, has returned nothing and written no cache entry, and
\* stays ended.
C21_Unauthenticated ==
    q.pc # "idle" =>
        /\ (q.err = "NotLoggedIn") <=> ~Authenticated
        /\ (ctx_token.len <= 10
              /\ ~(session.access_token # NoToken /\ now < session.expires_at))
               => q.err = "NotLoggedIn"
        /\ q.err # "NotLoggedIn" =>
               /\ q.token = IF ctx_token.stripped > 10 THEN ctx_token
                            ELSE session.access_token
               /\ q.token.len > 10
        /\ q.err = "NotLoggedIn" =>
               /\ q.pc = "raised"
               /\ q.token = NoToken
               /\ q.reqs = <<>>
               /\ q.result = NoResult
               /\ data_cache = EmptyCache
               /\ mcp_log = <<"Query CRM Data">>
               /\ auth_ret.called => ~auth_ret.ok

\* a call with a request token of 10 characters and no valid session has
\* raised, and so has the resolve_auth_token of the call after it
C21_Witness ==
    /\ q.pc = "raised"
    /\ q.err = "NotLoggedIn"
    /\ ctx_token = ShortToken
    /\ q.reqs = <<>>
    /\ auth_ret.called
    /\ ~auth_ret.ok

----------------------------------------------------------------------------
(* Claims on the total                                                     *)

\* the amount of a record as the rule reads it: none when the value is
\* missing, None, empty or a text that is not the text of a number; the
\* number otherwise
StatedAmountOf(val) ==
    IF val.t = "none" \/ (val.t = "str" /\ Strip(val.s) = <<>>) THEN NoAmount
    ELSE IF val.t = "str" /\ (CleanVal(val.s) # val.s \/ ~IsFloatText(val.s))
    THEN NoAmount
    ELSE [with |-> TRUE,
          amount |-> IF val.t = "num" THEN val.n * 100 ELSE FloatOf(val.s)]

RECURSIVE CountWhere(_, _)
\* how many records of a list have, or have not, an amount by that rule, and
\* what the amounts add up to
CountWhere(records, with) ==
    IF records = <<>> THEN 0
    ELSE (IF StatedAmountOf(GetAmount(Head(records))).with = with THEN 1 ELSE 0)
         + CountWhere(Tail(records), with)

RECURSIVE TotalWhole(_)
TotalWhole(records) ==
    IF records = <<>> THEN 0
    ELSE StatedAmountOf(GetAmount(Head(records))).amount
         + TotalWhole(Tail(records))

\* C22 as stated: when calculate_total_amount has returned, the records
\* whose amount is missing, empty or not the text of a number are the ones
\* counted in records_without_amount, every other record is counted in
\* records_with_amount and its amount is in the total.
C22_AsStated ==
    calc.pc = "done" =>
        /\ calc.records_with_amount = CountWhere(calc.records, TRUE)
        /\ calc.records_without_amount = CountWhere(calc.records, FALSE)
        /\ calc.total_amount = TotalWhole(calc.records)

----------------------------------------------------------------------------
(* Claims on the chart                                                     *)

\* the rows of the data whose x value, cleaned, is k
RowsOf(k) ==
    {i \in 1..Len(calc.data_list) : CleanCell(calc.data_list[i], calc.x_col) = k}

RECURSIVE SumOver(_)
\* the y values of a set of rows of the data, added up
SumOver(rows) ==
    IF rows = {} THEN 0
    ELSE LET i == CHOOSE i \in rows : TRUE
         IN  YValue(calc.data_list[i], calc.y_col) + SumOver(rows \ {i})

\* C23: when _plot_crm_data has sorted its frame, the frame holds one row
\* per value of the x column among the rows with a non-blank x value; with
\* no y column, or a y column no row of the data carries, the value of a row
\* is the number of records of its group, with a y column the data carries
\* it is the sum of the group's y values; the rows stand in descending order
\* of that value; and the x values A, A, B, C without y column give A: 2,
\* B: 1, C: 1 in this order.
C23_PlotOrder ==
    calc.pc = "done" =>
        /\ \A i, j \in 1..Len(calc.df) :
               /\ i < j => calc.df[i].value >= calc.df[j].value
               /\ i # j => calc.df[i].key # calc.df[j].key
        /\ \A n \in 1..Len(calc.data_list) :
               LET k == CleanCell(calc.data_list[n], calc.x_col) IN
               Strip(k) # <<>> => \E i \in 1..Len(calc.df) : calc.df[i].key = k
        /\ \A i \in 1..Len(calc.df) :
               /\ RowsOf(calc.df[i].key) # {}
               /\ calc.df[i].value =
                      IF calc.y_col = NoCol
                         \/ \A n \in 1..Len(calc.data_list) :
                                calc.y_col \notin DOMAIN calc.data_list[n]
                      THEN Cardinality(RowsOf(calc.df[i].key))
                      ELSE SumOver(RowsOf(calc.df[i].key))
        /\ (calc.data_list = PlotExample /\ calc.y_col = NoCol) =>
               calc.df = <<[key |-> <<"A">>, value |-> 2],
                           [key |-> <<"B">>, value |-> 1],
                           [key |-> <<"C">>, value |-> 1]>>

\* the frame of the x values A, A, B, C is sorted, the y column asked being
\* one that no row carries
C23_Witness ==
    /\ calc.pc = "done"
    /\ calc.data_list = PlotExample
    /\ calc.y_col = "revenue"
    /\ calc.y_used = "Count"
    /\ Len(calc.df) = 3
    /\ calc.df[1] = [key |-> <<"A">>, value |-> 2]

----------------------------------------------------------------------------
(* Claims on the order of the identity lookups                             *)

\* the lookups done for the key in hand, and what each did
KeyLookups == SubSeq(rs.lookups, rs.kstart + 1, Len(rs.lookups))
KeyOutcomes == SubSeq(rs.outcomes, rs.kstart + 1, Len(rs.outcomes))

\* the key in hand has been through its lookups
KeyConcluded == rs.pc \in {"key", "done"} /\ KeyLookups # <<>>

\* the text of the value in hand holds a space
NameHasSpace ==
    rs.name_query.t = "str" /\ HasSpace(Strip(PyStr(rs.name_query)))

\* the lookup by first and last name of the value in hand
SplitLookup ==
    <<F("first_name", StrV(FirstPart(Strip(PyStr(rs.name_query))))),
      F("last_name", StrV(RestParts(Strip(PyStr(rs.name_query)))))>>

\* the fields the lookups are to go through, in their order
LookupFieldOrder == <<"name", "user_name", "first_name", "last_name">>

\* the i-th lookup for the key in hand is the one by first and last name
IsSplit(i) == Len(KeyLookups[i]) = 2

\* what holds of the lookups whatever the lookup by first and last name
\* waits for
LookupOrder ==
    /\ Len(rs.lookups) = Len(rs.outcomes)
    /\ \A i \in 1..Len(KeyLookups) :
           /\ IsSplit(i) =>
                  /\ i = Len(KeyLookups)
                  /\ i > 1
                  /\ NameHasSpace
                  /\ KeyLookups[i] = SplitLookup
           /\ ~IsSplit(i) =>
                  /\ i <= Len(LookupFieldOrder)
                  /\ KeyLookups[i] = <<F(LookupFieldOrder[i], rs.name_query)>>
           /\ i < Len(KeyLookups) =>
                  /\ KeyOutcomes[i] # "hit"
                  /\ ~IsSplit(i + 1) => KeyOutcomes[i] \in {"raise", "none"}
    /\ KeyConcluded =>
           LET n == Len(KeyLookups) IN
           /\ rs.target_id = IF KeyOutcomes[n] = "hit" THEN UserId ELSE <<>>
           /\ \/ KeyOutcomes[n] = "hit"
              \/ NameHasSpace /\ IsSplit(n)
              \/ ~NameHasSpace /\ n = Len(LookupFieldOrder)
              \/ ~NameHasSpace /\ KeyOutcomes[n] = "hit_noid"
    /\ rs.pc = "done" =>
           \A i \in 1..Len(task0.filters) :
               LET k == task0.filters[i].key
                   v == task0.filters[i].crit
               IN  (k \in ResolvableFields /\ ~IsMulti(v) /\ IsIdShaped(PyStr(v))) =>
                       /\ Get(task.filters, TargetApiKey(k)) = v
                       /\ \A n \in 1..Len(rs.lookups) : rs.lookups[n][1].crit # v

\* C24 as stated: the lookups of a value go through name, user_name,
\* first_name, last_name in this order and stop at the first match; the
\* lookup by first and last name comes only after all four of them matched
\* nothing, and only for a text with a space; an identifier is passed
\* through without lookup.
C24_AsStated ==
    /\ LookupOrder
    /\ \A i \in 1..Len(KeyLookups) :
           IsSplit(i) =>
               /\ i = Len(LookupFieldOrder) + 1
               /\ \A j \in 1..Len(LookupFieldOrder) : KeyOutcomes[j] \in {"raise", "none"}

\* C24: the lookups of a scalar value that is no identifier go through
\* name, user_name, first_name, last_name in this order, one after the
\* other, and stop at the first one that returns a record, whose id is
\* taken; the lookup by first and last name comes only when no id has been
\* got, that is after all four matched nothing or right after the one that
\* returned a record without id, and only for a text with a space; an
\* identifier is passed through under the id field without lookup.
C24_LookupOrder ==
    /\ LookupOrder
    /\ \A i \in 1..Len(KeyLookups) :
           IsSplit(i) =>
               \/ /\ i = Len(LookupFieldOrder) + 1
                  /\ \A j \in 1..Len(LookupFieldOrder) :
                         KeyOutcomes[j] \in {"raise", "none"}
               \/ KeyOutcomes[i - 1] = "hit_noid"

\* the third lookup of a name of two words returned a record with an id: the
\* resolver has returned after three lookups, without the lookup by first
\* and last name
C24_Witness ==
    /\ rs.pc = "done"
    /\ NameHasSpace
    /\ KeyOutcomes = <<"none", "raise", "hit">>
    /\ KeyLookups[3] = <<F("first_name", rs.name_query)>>
    /\ rs.target_id = UserId

----------------------------------------------------------------------------
(* Claims on the fallback search and the merge of its sections             *)

\* the sections of the result that hold records
WithRecords(sub_results) ==
    SelectSeq(sub_results, LAMBDA sub : Len(sub.records) > 0)

\* the sections of the multi_list result of a flagged task have been chosen
FlaggedMerged ==
    /\ wf.pc \in {"merged", "failed"}
    /\ wf.env.type = "multi_list"
    /\ task.merge_fallback

----------------------------------------------------------------------------
(* Claims on the classifier's answer                                       *)

\* the answer is no JSON, or not an object with a list of task objects
Malformed(response) ==
    \/ response.json # "object"
    \/ ~response.has_tasks /\ ~response.has_type
    \/ response.has_tasks /\ ~response.is_list
    \/ \E i \in 1..Len(response.tasks) : ~response.tasks[i].is_dict

\* no query_crm_data call has been logged
NoFetchIssued == \A i \in 1..Len(mcp_log) : mcp_log[i] # "Query CRM Data"

\* C26 as stated: a malformed answer of the classifier is taken as zero
\* tasks: the request has no task, has returned and has issued no fetch.
C26_AsStated ==
    (calc.pc = "classified" /\ Malformed(calc.response)) =>
        /\ run.tasks = <<>>
        /\ run.pc = "returned"
        /\ NoFetchIssued

----------------------------------------------------------------------------
(* Claims on what changes a task after its filters are resolved            *)

\* the task without its page
Pageless(t) == [t EXCEPT !.page = 0]

\* C27 as stated: once _resolve_smart_filters has returned, no step changes
\* any field of the task.
C27_AsStated == [][rs.pc = "done" => task' = task]_vars

\* C27: once _resolve_smart_filters has returned, the page of the task is
\* written once, by _process_task before the workflow starts, and no step
\* changes any other field of the task: the sub-queries work on copies of
\* the filters.
C27_PageOnly ==
    [][rs.pc = "done" =>
          /\ Pageless(task') = Pageless(task)
          /\ task'.page # task.page => wf.pc = "idle" /\ wf'.pc = "start"]_vars

\* a task split into two sub-queries has been through its workflow and the
\* merge at page 2, its filter still the list it was
C27_Witness ==
    /\ rs.pc = "done"
    /\ wf.pc = "merged"
    /\ wf.env.type = "multi_list"
    /\ Len(wf.calls) = 2
    /\ task.page = 2
    /\ task.filters = task0.filters
    /\ \E i \in 1..Len(task.filters) : IsMulti(task.filters[i].crit)

----------------------------------------------------------------------------
(* Claims on the number of records a walk returns                          *)

Min(a, b) == IF a < b THEN a ELSE b

\* a walk over every page against an upstream that keeps to the page size
BoundedWalk == args.iterate /\ upstream_extra = 0 /\ walk.pc \in {"loop", "done"}

\* C28: a walk over every page, the upstream returning at most page-size
\* records per page, holds at most min(record budget, 500 x page size)
\* records; with the page size of 20 that is at most 10,000, so that a walk
\* under the budget of 40,000 or the default limit of 20,000 never holds as
\* many records as its limit.
C28_WalkBound ==
    BoundedWalk =>
        /\ walk.rows <= Min(walk.limit, PAGE_CAP * walk.page_size)
        /\ walk.page_size <= PAGE_SIZE
        /\ walk.rows <= 10000
        /\ args.max_records \in {0, 40000} =>
               /\ walk.limit \in {20000, 40000}
               /\ walk.page_size = PAGE_SIZE
               /\ walk.rows < walk.limit

\* a walk under the budget of 40,000 has ended after 500 full pages with
\* 10,000 records
C28_Witness ==
    /\ BoundedWalk
    /\ walk.pc = "done"
    /\ args.max_records = 40000
    /\ Len(walk.reqs) = PAGE_CAP
    /\ walk.rows = 10000

----------------------------------------------------------------------------
(* Claims on the records the sum workflow aggregates                       *)

\* calculate_total_amount has been called for the sum task in hand
SumAggregated == task.type = "sum" /\ wf.aggs # <<>>

\* C29 as stated: whatever other tasks insert into the cache, whatever
\* expires and whenever the cache is cleared between the fetch of a sum task
\* and its aggregation, calculate_total_amount does not fail and works on
\* the records the fetch of the task returned.
C29_AsStated ==
    SumAggregated =>
        /\ wf.pc # "raised"
        /\ wf.env # NoEnvelope
        /\ wf.env.agg = wf.fetched.records

----------------------------------------------------------------------------
(* Claims on the execution log of a request                                *)

\* C30 as stated: the execution log in the metadata of a request holds the
\* steps logged for that request and no other, each of them, and total_steps
\* is their number, however two requests interleave.
C30_AsStated ==
    calc.pc = "log" =>
        \A r \in Requests :
            calc.rq[r].pc = "returned" =>
                LET out == calc.rq[r].out IN
                /\ \A i \in 1..Len(out.by) : out.by[i] = r
                /\ Len(out.execution_log) = calc.rq[r].own
                /\ out.total_steps = Len(out.execution_log)

====
